---- MODULE Spec2Model ----
(***************************************************************************)
(* A model of marksalpeter/validator: the rule lexer (lexer.go), the       *)
(* recursive-descent rule parser (parse.go: parse, parseBools,             *)
(* parseFunction) and the evaluator (parse.go: node.execute).              *)
(*                                                                         *)
(* A rule string is a sequence of one-character strings; the lexer's       *)
(* positions are Go's byte offsets (0-based), so buffer[i] of the source   *)
(* is buffer[i + 1] here.                                                  *)
(***************************************************************************)
EXTENDS Integers, Sequences, FiniteSets, TLC

VARIABLES
    pc,        \* where the modelled run stands: "start", "parsed", "done"
    input,     \* the rule string handed to parse (the field's tag value)
    fails,     \* the rule functions that return an error, by rule name
    tree,      \* the *node parse returned (NoNode for nil)
    perr,      \* the error parse returned (NilErr for nil)
    groups,    \* one record per recursive parseBools call that returned
    result,    \* what execute returned: [err, panic]
    ps,        \* the *RuleParams handed to execute
    calls,     \* the rule functions invoked, in order: [path, rule, params]
    lx,        \* a *lexer driven call by call: [buffer, start, pos, len, parenStack]
    tk,        \* the token the last Next or Peak on lx returned
    v,         \* the validator New returned: [tag, rules]
    record,    \* the value handed to Validate or CheckSyntax
    out,       \* what Validate or CheckSyntax returned: [errs, panic]
    es,        \* a FieldErrors list that errors are added to
    parser,    \* the validator's *parser: its cache of parsed trees
    threads    \* the goroutines validating concurrently, each at a step of parse

\* the variables of a single parse and evaluation
parseVars == <<pc, input, fails, tree, perr, groups, result, ps, calls>>

\* the variables of the lexer, the validator, the error list and the parse cache
hostVars == <<lx, tk, v, record, out, es, parser, threads>>

vars == <<pc, input, fails, tree, perr, groups, result, ps, calls,
          lx, tk, v, record, out, es, parser, threads>>

----------------------------------------------------------------------------
(* Bounds of the model.                                                    *)

\* the longest rule string enumerated character by character
MaxLen == 4

\* the most function leaves of an enumerated parse tree
MaxLeaves == 3

\* the longest buffer of a lexer driven call by call
MaxBuf == 3

\* the most fields of an enumerated struct
MaxFields == 2

\* the most calls of Validate and CheckSyntax on one validator
MaxCalls == 2

\* the most goroutines validating concurrently
MaxThreads == 2

\* the most sub-errors of an enumerated composite error, and the most additions
\* to one list
MaxSub == 2

\* the longest parameter list handed to a rule function
MaxParams == 2

\* the most pieces of a buffer of the scanning runs
MaxPieces == 3

----------------------------------------------------------------------------
(* Characters.                                                             *)

DecDigits == {"0", "1", "2", "3", "4", "5", "6", "7", "8", "9"}

LowerLetters ==
    {"a", "b", "c", "d", "e", "f", "g", "h", "i", "j", "k", "l", "m",
     "n", "o", "p", "q", "r", "s", "t", "u", "v", "w", "x", "y", "z"}

UpperLetters ==
    {"A", "B", "C", "D", "E", "F", "G", "H", "I", "J", "K", "L", "M",
     "N", "O", "P", "Q", "R", "S", "T", "U", "V", "W", "X", "Y", "Z"}

\* the rune next() and peak() return at the end of the buffer
eof == "<eof>"

\* unicode.IsSpace on the bytes of a rule string
IsSpace(r) == r \in {" ", "\t", "\n", "\r"}

isAlphaNumeric(r) == r = "_" \/ r \in LowerLetters \/ r \in UpperLetters \/ r \in DecDigits

\* fmt's %d for a non-negative int, as characters
RECURSIVE IntToChars(_)
IntToChars(n) ==
    LET d == <<"0", "1", "2", "3", "4", "5", "6", "7", "8", "9">>[(n % 10) + 1]
    IN  IF n < 10 THEN <<d>> ELSE IntToChars(n \div 10) \o <<d>>

\* buffer[from:] cut to at most k characters (fmt's %.10s)
Near(buffer, from, k) ==
    SubSeq(buffer, from + 1, IF Len(buffer) < from + k THEN Len(buffer) ELSE from + k)

----------------------------------------------------------------------------
(* Token types (token.go).                                                 *)

typeError      == "typeError"
typeEOF        == "typeEOF"
typeAnd        == "typeAnd"
typeOr         == "typeOr"
typeFunction   == "typeFunction"
typeColon      == "typeColon"
typeComma      == "typeComma"
typeOpenParen  == "typeOpenParen"
typeCloseParen == "typeCloseParen"
typeBool       == "typeBool"
typeNumber     == "typeNumber"
typeString     == "typeString"
typeSpace      == "typeSpace"

----------------------------------------------------------------------------
(* The lexer (lexer.go).  A lexer is [buffer, start, pos, len, parenStack];*)
(* an operator that moves the scan position returns the moved lexer, and a *)
(* scan is a chain of operators, each handing the lexer it reached to the  *)
(* next one.                                                               *)

newLexer(s) == [buffer |-> s, start |-> 0, pos |-> 0, len |-> Len(s), parenStack |-> 0]

hasNext(l) == l.pos < l.len

\* the byte at the scan position; only read when hasNext(l)
cur(l) == l.buffer[l.pos + 1]

peak(l) == IF hasNext(l) THEN cur(l) ELSE eof

\* next() moves by one byte unless at the end
next(l) == IF hasNext(l) THEN [l EXCEPT !.pos = l.pos + 1] ELSE l

backup(l) == IF l.pos = 0 THEN l ELSE [l EXCEPT !.pos = l.pos - 1]

\* strings.ContainsRune(valid, rune(l.buffer[l.pos])) with a byte to read
has(l, valid) == hasNext(l) /\ cur(l) \in valid

accept(l, valid) == IF has(l, valid) THEN [l EXCEPT !.pos = l.pos + 1] ELSE l

RECURSIVE acceptRun(_, _)
acceptRun(l, valid) ==
    IF has(l, valid) THEN acceptRun([l EXCEPT !.pos = l.pos + 1], valid) ELSE l

HasPrefix(l, valid) ==
    /\ l.pos + Len(valid) <= l.len
    /\ SubSeq(l.buffer, l.pos + 1, l.pos + Len(valid)) = valid

acceptPrefix(l, valid) ==
    IF HasPrefix(l, valid) THEN [l EXCEPT !.pos = l.pos + Len(valid)] ELSE l

\* emit with the text taken from the start of the buffer
emitFromStart(l, t) == [typ |-> t, val |-> SubSeq(l.buffer, 1, l.pos)]

emit(l, t) == [typ |-> t, val |-> SubSeq(l.buffer, l.start + 1, l.pos)]

emitError(msg) == [typ |-> typeError, val |-> msg]

\* a token of the type without the text between start and pos
emittedNoText(l, t) == [tok |-> [typ |-> t, val |-> <<>>], lex |-> l]

\* what Next returns: the token and the lexer it leaves behind
emitted(l, t) == [tok |-> emit(l, t), lex |-> l]

Signs == {"+", "-"}

\* the digits acceptNumber scans for each radix
digitsOf(radix) ==
    CASE radix = "hex" ->
            DecDigits \cup {"a", "b", "c", "d", "e", "f", "A", "B", "C", "D", "E", "F", "_"}
      [] radix = "oct" -> {"0", "1", "2", "3", "4", "5", "6", "7", "_"}
      [] radix = "bin" -> {"0", "1", "_"}
      [] OTHER -> DecDigits \cup {"_"}

\* a numeric scan that keeps what it covered whatever follows
numberEndPartial(start, l) == [ok |-> l.pos # start, lex |-> l]

\* acceptNumber, last step: the next thing mustn't be alphanumeric
numberEnd(start, l) ==
    IF isAlphaNumeric(peak(l))
    THEN [ok |-> FALSE, lex |-> [l EXCEPT !.pos = start]]
    ELSE [ok |-> l.pos # start, lex |-> l]

\* acceptNumber: the exponent of a decimal or hexadecimal number, then "i"
numberExponent(start, radix, l) ==
    IF (radix = "dec" /\ has(l, {"e", "E"})) \/ (radix = "hex" /\ has(l, {"p", "P"}))
    THEN numberEnd(start, accept(acceptRun(accept(next(l), Signs), digitsOf("dec")), {"i"}))
    ELSE numberEnd(start, accept(l, {"i"}))

\* acceptNumber: no digits so far is no number; else the fraction
numberFraction(start, radix, l) ==
    IF l.pos = start THEN [ok |-> FALSE, lex |-> l]
    ELSE IF has(l, {"."})
    THEN numberExponent(start, radix, acceptRun(next(l), digitsOf(radix)))
    ELSE numberExponent(start, radix, l)

\* acceptNumber: the run of digits of the radix
numberDigits(start, radix, l) == numberFraction(start, radix, acceptRun(l, digitsOf(radix)))

\* acceptNumber: the radix prefix after a leading 0
numberRadix(start, l) ==
    IF ~has(l, {"0"}) THEN numberDigits(start, "dec", l)
    ELSE IF has(next(l), {"x", "X"}) THEN numberDigits(start, "hex", next(next(l)))
    ELSE IF has(next(l), {"o", "O"}) THEN numberDigits(start, "oct", next(next(l)))
    ELSE IF has(next(l), {"b", "B"}) THEN numberDigits(start, "bin", next(next(l)))
    ELSE numberDigits(start, "dec", next(l))

\* acceptNumber: [ok, lex]
acceptNumber(l) == numberRadix(l.start, accept(l, Signs))

\* fmt's %q of a text without a character to escape
Quoted(text) == <<"\"">> \o text \o <<"\"">>

\* a loop of acceptString that takes either quote as the closing one
RECURSIVE stringBodyAnyQuote(_, _)
stringBodyAnyQuote(l, q) ==
    IF has(l, {"'", "\""}) THEN [ok |-> TRUE, lex |-> next(l)]
    ELSE IF ~hasNext(l) THEN [ok |-> FALSE, lex |-> l]
    ELSE stringBodyAnyQuote(next(l), q)

\* the loop of acceptString once the opening quote q is consumed: [ok, lex]
RECURSIVE stringBody(_, _)
stringBody(l, q) ==
    IF has(l, {q}) THEN [ok |-> TRUE, lex |-> next(l)]
    ELSE IF ~hasNext(l) THEN [ok |-> FALSE, lex |-> l]
    ELSE stringBody(next(l), q)

\* acceptString, once the loop is left with r
stringEnd(r) ==
    IF r.ok THEN [ok |-> TRUE, err |-> <<>>, lex |-> r.lex]
    ELSE [ok |-> FALSE,
          err |-> <<"string not closed. char ">> \o IntToChars(r.lex.pos)
                  \o <<" near \"">> \o Quoted(Near(r.lex.buffer, r.lex.pos, 10))
                  \o <<"...\"">>,
          lex |-> r.lex]

\* acceptString: [ok, err, lex]; err is <<>> for nil
acceptString(l) ==
    IF has(l, {"'", "\""}) THEN stringEnd(stringBody(next(l), cur(l)))
    ELSE [ok |-> FALSE, err |-> <<>>, lex |-> l]

RECURSIVE acceptSpace(_)
acceptSpace(l) == IF hasNext(l) /\ IsSpace(cur(l)) THEN acceptSpace(next(l)) ELSE l

RECURSIVE acceptFunction(_)
acceptFunction(l) == IF hasNext(l) /\ isAlphaNumeric(cur(l)) THEN acceptFunction(next(l)) ELSE l

\* Next, last alternative: a function name, or the error of a position nothing matches
scanFunction(l) ==
    IF l.pos # l.start THEN emitted(l, typeFunction)
    ELSE [tok |-> emitError(<<"error at char ">> \o IntToChars(l.pos) \o <<" near \"">>
                            \o Near(l.buffer, l.pos, 10) \o <<"...\"">>),
          lex |-> l]

\* Next: white space, given the lexer acceptSpace left
scanSpace(l) ==
    IF l.pos # l.start THEN emitted(l, typeSpace) ELSE scanFunction(acceptFunction(l))

\* Next: a number, given what acceptNumber returned
scanNumber(num) ==
    IF num.ok THEN emitted(num.lex, typeNumber) ELSE scanSpace(acceptSpace(num.lex))

\* Next: a string, given what acceptString returned on l
scanString(l, str) ==
    IF str.ok THEN emitted(str.lex, typeString)
    ELSE IF str.err # <<>> THEN [tok |-> emitError(str.err), lex |-> str.lex]
    ELSE scanNumber(acceptNumber(l))

\* Next on ")": an error at depth zero, else one level up; l stands after the paren
scanCloseParen(l) ==
    IF l.parenStack = 0
    THEN [tok |-> emitError(<<"closed paren with no open paren at char ">>
                            \o IntToChars(l.pos) \o <<" near \"">>
                            \o Near(l.buffer, l.pos, 10) \o <<"...\"">>),
          lex |-> l]
    ELSE emitted([l EXCEPT !.parenStack = l.parenStack - 1], typeCloseParen)

\* Next at the end of the buffer
scanEOF(l) ==
    IF l.parenStack > 0
    THEN [tok |-> emitError(<<"missing ">> \o IntToChars(l.parenStack)
                            \o <<" closed parenthasis at EOF">>),
          lex |-> l]
    ELSE emitted(l, typeEOF)

\* Next once l.start = l.pos: the alternatives in the order of the source
scan(l) ==
    IF ~hasNext(l) THEN scanEOF(l)
    ELSE IF HasPrefix(l, <<"&">>) THEN emitted(next(l), typeAnd)
    ELSE IF HasPrefix(l, <<"|">>) THEN emitted(next(l), typeOr)
    ELSE IF HasPrefix(l, <<":">>) THEN emitted(next(l), typeColon)
    ELSE IF HasPrefix(l, <<",">>) THEN emitted(next(l), typeComma)
    ELSE IF HasPrefix(l, <<"(">>)
    THEN emitted([l EXCEPT !.pos = l.pos + 1, !.parenStack = l.parenStack + 1],
                 typeOpenParen)
    ELSE IF HasPrefix(l, <<")">>) THEN scanCloseParen(next(l))
    ELSE IF HasPrefix(l, <<"t", "r", "u", "e">>)
    THEN emitted(acceptPrefix(l, <<"t", "r", "u", "e">>), typeBool)
    ELSE IF HasPrefix(l, <<"f", "a", "l", "s", "e">>)
    THEN emitted(acceptPrefix(l, <<"f", "a", "l", "s", "e">>), typeBool)
    ELSE scanString(l, acceptString(l))

\* Next: [tok, lex]
Next(l) == scan([l EXCEPT !.start = l.pos])

\* Backup: rewind to the start of the last token, undoing a paren's count
Backup(l) ==
    [l EXCEPT !.parenStack =
                  IF l.pos > l.len THEN l.parenStack
                  ELSE IF SubSeq(l.buffer, l.start + 1, l.pos) = <<"(">>
                  THEN l.parenStack - 1
                  ELSE IF SubSeq(l.buffer, l.start + 1, l.pos) = <<")">>
                  THEN l.parenStack + 1
                  ELSE l.parenStack,
              !.pos = l.start]

\* Peak: Next, then Backup
Peak(l) == [tok |-> Next(l).tok, lex |-> Backup(Next(l).lex)]

----------------------------------------------------------------------------
(* Parse trees (parse.go: node).  NoNode is the nil *node; an And/Or node  *)
(* keeps its operands in A and B.                                          *)

NoNode == [Type |-> "nil"]

IsNil(n) == n.Type = "nil"

FunctionNode(r, val, params) ==
    [Type |-> typeFunction, Value |-> val, rule |-> r, params |-> params,
     A |-> NoNode, B |-> NoNode]

\* an operator node that leaves the tree built so far out
OperatorNodeAlone(typ, a) ==
    [Type |-> typ, Value |-> <<>>, rule |-> <<>>, params |-> <<>>, A |-> NoNode, B |-> NoNode]

\* var n node; n.Type = t.typ; n.A = current
OperatorNode(typ, a) ==
    [Type |-> typ, Value |-> <<>>, rule |-> <<>>, params |-> <<>>, A |-> a, B |-> NoNode]

\* no node counted as an And/Or
IsOperatorNever(n) == FALSE

IsOperator(n) == n.Type = typeAnd \/ n.Type = typeOr

\* the nil error of the parser; an error is its message
NoError == <<>>

\* ierrorf("bad '%s' at %d", val, l.start)
badAt(val, l) == <<"bad '">> \o val \o <<"' at ">> \o IntToChars(l.start)

----------------------------------------------------------------------------
(* parseFunction (parse.go).  rules maps a rule name to its rule function. *)
(* The for loop over the parameters returns [params, err, lex].            *)

RECURSIVE paramLoop(_, _)

\* the loop's third Next: a comma goes round again, anything else breaks
paramComma(t3, params) ==
    IF t3.tok.typ # typeComma THEN [params |-> params, err |-> NoError, lex |-> t3.lex]
    ELSE paramLoop(t3.lex, params)

\* the loop's second Next: the token appended as a parameter
paramValue(t2, params) ==
    IF t2.tok.typ \in {typeBool, typeNumber, typeString}
    THEN paramComma(Next(t2.lex), Append(params, t2.tok.val))
    ELSE [params |-> params,
          err |-> <<"'">> \o t2.tok.val \o <<"' is not a function parameter">>,
          lex |-> t2.lex]

\* the loop's first Next: white space goes round again
paramSpace(t1, params) ==
    IF t1.tok.typ = typeSpace THEN paramLoop(t1.lex, params)
    ELSE paramValue(Next(t1.lex), params)

paramLoop(l, params) == paramSpace(Next(l), params)

\* the end of parseFunction: the rule is looked up in the registry
lookupRule(l, val, params, rules) ==
    IF val \notin DOMAIN rules
    THEN [n |-> NoNode, err |-> <<"'">> \o val \o <<"' is not a valid rule">>, lex |-> l]
    ELSE [n |-> FunctionNode(rules[val], val, params), err |-> NoError, lex |-> l]

\* parseFunction after a colon, once the parameter loop returned pl
afterParams(pl, val, rules) ==
    IF pl.err # NoError THEN [n |-> NoNode, err |-> pl.err, lex |-> pl.lex]
    ELSE lookupRule(Backup(pl.lex), val, pl.params, rules)

\* parseFunction once the token after the name is read
afterName(t, val, rules) ==
    IF t.tok.typ = typeColon THEN afterParams(paramLoop(t.lex, <<>>), val, rules)
    ELSE lookupRule(t.lex, val, <<>>, rules)

\* parseFunction: [n, err, lex]
parseFunction(l, val, rules) == afterName(Next(l), val, rules)

----------------------------------------------------------------------------
(* parseBools (parse.go): [n, err, lex, groups].  groups records, for each *)
(* recursive call that returned a tree, where its open-paren stood and     *)
(* where the lexer stood when it returned.                                 *)

RECURSIVE parseLoop(_, _, _, _)

\* case typeFunction without its final error: a full And/Or takes the function as B
attachFunctionOverwrite(f, val, current, rules, grps) ==
    IF f.err # NoError THEN [n |-> NoNode, err |-> f.err, lex |-> f.lex, groups |-> grps]
    ELSE IF IsNil(current) THEN parseLoop(f.lex, f.n, rules, grps)
    ELSE IF IsNil(current.A) THEN parseLoop(f.lex, [current EXCEPT !.A = f.n], rules, grps)
    ELSE parseLoop(f.lex, [current EXCEPT !.B = f.n], rules, grps)

\* case typeFunction, once parseFunction returned f
attachFunction(f, val, current, rules, grps) ==
    IF f.err # NoError THEN [n |-> NoNode, err |-> f.err, lex |-> f.lex, groups |-> grps]
    ELSE IF IsNil(current) THEN parseLoop(f.lex, f.n, rules, grps)
    ELSE IF IsNil(current.A) THEN parseLoop(f.lex, [current EXCEPT !.A = f.n], rules, grps)
    ELSE IF IsNil(current.B) THEN parseLoop(f.lex, [current EXCEPT !.B = f.n], rules, grps)
    ELSE [n |-> NoNode, err |-> badAt(val, f.lex), lex |-> f.lex, groups |-> grps]

\* the group a recursive call adds to the record
withGroup(sub, open) ==
    Append(sub.groups, [open |-> open, start |-> sub.lex.start, pos |-> sub.lex.pos])

\* case typeOpenParen, once the recursive parseBools returned sub
attachGroup(sub, open, current, rules) ==
    IF sub.err # NoError THEN sub
    ELSE IF IsNil(current) THEN parseLoop(sub.lex, sub.n, rules, withGroup(sub, open))
    ELSE IF ~IsNil(current.A) /\ IsNil(current.B)
    THEN parseLoop(sub.lex, [current EXCEPT !.B = sub.n], rules, withGroup(sub, open))
    ELSE [n |-> NoNode, err |-> badAt(<<"(">>, sub.lex), lex |-> sub.lex,
          groups |-> withGroup(sub, open)]

\* an operator check that lets every And/Or token through
hasBadOperatorSyntaxNever(current) == FALSE

\* case typeAnd, typeOr: the partial tree is an And/Or that is not full
hasBadOperatorSyntax(current) ==
    IsOperator(current) /\ ~(~IsNil(current.A) /\ ~IsNil(current.B))

\* return nil, ierrorf(...)
parseError(msg, l, grps) == [n |-> NoNode, err |-> msg, lex |-> l, groups |-> grps]

\* the switch of parseBools on the token nx.tok, with the partial tree `current`
parseToken(nx, current, rules, grps) ==
    CASE nx.tok.typ \in {typeEOF, typeCloseParen} ->
            IF IsOperator(current) /\ IsNil(current.B)
            THEN parseError(badAt(<<"|">>, nx.lex), nx.lex, grps)
            ELSE [n |-> current, err |-> NoError, lex |-> nx.lex, groups |-> grps]
      [] nx.tok.typ = typeSpace -> parseLoop(nx.lex, current, rules, grps)
      [] nx.tok.typ = typeError -> parseError(nx.tok.val, nx.lex, grps)
      [] nx.tok.typ \in {typeColon, typeComma} ->
            parseError(badAt(nx.tok.val, nx.lex), nx.lex, grps)
      [] nx.tok.typ = typeFunction ->
            IF ~IsNil(current) /\ ~IsOperator(current)
            THEN parseError(badAt(nx.tok.val, nx.lex), nx.lex, grps)
            ELSE attachFunction(parseFunction(nx.lex, nx.tok.val, rules), nx.tok.val,
                                current, rules, grps)
      [] nx.tok.typ \in {typeAnd, typeOr} ->
            IF hasBadOperatorSyntax(current)
            THEN parseError(badAt(nx.tok.val, nx.lex), nx.lex, grps)
            ELSE parseLoop(nx.lex, OperatorNode(nx.tok.typ, current), rules, grps)
      [] nx.tok.typ = typeOpenParen ->
            IF ~IsNil(current) /\ ~IsOperator(current)
            THEN parseError(badAt(nx.tok.val, nx.lex), nx.lex, grps)
            ELSE attachGroup(parseLoop(nx.lex, NoNode, rules, grps), nx.lex.start,
                             current, rules)
      [] OTHER -> parseError(badAt(nx.tok.val, nx.lex), nx.lex, grps)

\* the for loop of parseBools: one Next, then the switch
parseLoop(l, current, rules, grps) == parseToken(Next(l), current, rules, grps)

parseBools(l, rules) == parseLoop(l, NoNode, rules, <<>>)

\* parse: a new lexer over the rule string, then parseBools
parse(validator, rules) == parseBools(newLexer(validator), rules)

----------------------------------------------------------------------------
(* The evaluator (parse.go: node.execute).  A rule function is modelled by *)
(* its outcome: it returns a fresh error naming itself when it is one of   *)
(* `fails`, and nil otherwise.  The state threaded through an evaluation   *)
(* is [Params, calls]: ps.Params and the invocations made so far.          *)

\* rule names as the lexer spells them
Name_t == <<"t">>
Name_f == <<"f">>
Name_g == <<"g">>
Name_eq == <<"e", "q">>
Name_func == <<"f", "u", "n", "c">>
Name_xor == <<"x", "o", "r">>
Name_required == <<"r", "e", "q", "u", "i", "r", "e", "d">>
Name_empty == <<"e", "m", "p", "t", "y">>

\* the nil error of a rule function
NilErr == [rule |-> <<>>, call |-> 0]

\* n.rule(ps): the error object is new at each call, so it carries the call's number
ruleResult(r, failing, st) ==
    IF r \in failing THEN [rule |-> r, call |-> Len(st.calls)] ELSE NilErr

\* execute without the assignment to ps.Params
installParamsNever(n, st) == st

\* execute adding n.params to the list it finds in ps
installParamsAppend(n, st) == [st EXCEPT !.Params = @ \o n.params]

\* ps.Params = n.params
installParams(n, st) == [st EXCEPT !.Params = n.params]

\* EQ panics when it is given no parameter
rulePanics(r, params) == r = Name_eq /\ params = <<>>

\* the value EQ panics with
EQPanic == <<"eq requires at least one parameter">>

\* the runtime error of reading a field of a nil *node
NilPanic == <<"runtime error: invalid memory address or nil pointer dereference">>

\* return n.rule(ps): the call is logged with the parameter list the rule finds in ps
callRule(n, path, failing, st) ==
    [err |-> ruleResult(n.rule, failing,
                        [st EXCEPT !.calls = Append(st.calls, [path |-> path, rule |-> n.rule,
                                                               params |-> st.Params])]),
     panic |-> rulePanics(n.rule, st.Params),
     value |-> EQPanic,
     st |-> [st EXCEPT !.calls = Append(st.calls, [path |-> path, rule |-> n.rule,
                                                   params |-> st.Params])]]

\* the function case of execute
executeFunction(n, path, failing, st) == callRule(n, path, failing, installParams(n, st))

\* the condition under which execute goes on to evaluate n.B
evaluatesRightSkipAnd(err, typ) == err # NilErr /\ typ = typeOr

evaluatesRightSkipOr(err, typ) == err = NilErr /\ typ = typeAnd

evaluatesRightAlways(err, typ) == TRUE

evaluatesRight(err, typ) ==
    (err = NilErr /\ typ = typeAnd) \/ (err # NilErr /\ typ = typeOr)

\* execute: [err, panic, st]; reading n.Type of a nil *node panics
RECURSIVE execute(_, _, _, _)
execute(n, path, failing, st) ==
    IF IsNil(n) THEN [err |-> NilErr, panic |-> TRUE, value |-> NilPanic, st |-> st]
    ELSE IF n.Type = typeFunction THEN executeFunction(n, path, failing, st)
    ELSE LET a == execute(n.A, Append(path, "A"), failing, st)
         IN  IF a.panic THEN a
             ELSE IF evaluatesRight(a.err, n.Type)
             THEN execute(n.B, Append(path, "B"), failing, a.st)
             ELSE a

----------------------------------------------------------------------------
(* Inputs.                                                                 *)

\* the registry handed to parse: each rule function is named by its rule
ParserRules ==
    [r \in {Name_t, Name_f, Name_g, Name_eq, Name_func, Name_xor, Name_required,
             Name_empty} |-> r]

\* the rule functions of the tests that always return an error
TestFails == {Name_f, Name_g}

\* the characters rule strings are enumerated over
Alphabet == {"t", "f", " ", "&", "|", "(", ")", ":", ",", "1"}

\* the rule string of TestLexer and the tokens the test expects for it
TestLexerInput ==
    <<"f", "u", "n", "c", ":", " ", "'", "p", "a", "r", "a", "m", "1", "'", ",", " ",
      "2", " ", "&", " ", "e", "m", "p", "t", "y", " ", "&", " ", "i", " ", "|", " ",
      "o", "n", "e", " ", "&", " ", "t", "w", "o", " ", " ", "|", " ", "(", "t", "h",
      "r", "e", "e", " ", "&", " ", "f", "o", "u", "r", ")", "\t", "|", " ", "f",
      "i", "v", "e", ":", " ", "'", "s", "i", "x", "'", ",", " ", "0", "2", ".", "0",
      " ", "&", " ", "s", "e", "v", "e", "n", ":", " ", "f", "a", "l", "s", "e">>

TestLexerTokens ==
    << [typ |-> typeFunction, val |-> <<"f", "u", "n", "c">>],
       [typ |-> typeColon, val |-> <<":">>],
       [typ |-> typeSpace, val |-> <<" ">>],
       [typ |-> typeString, val |-> <<"'", "p", "a", "r", "a", "m", "1", "'">>],
       [typ |-> typeComma, val |-> <<",">>],
       [typ |-> typeSpace, val |-> <<" ">>],
       [typ |-> typeNumber, val |-> <<"2">>],
       [typ |-> typeSpace, val |-> <<" ">>],
       [typ |-> typeAnd, val |-> <<"&">>],
       [typ |-> typeSpace, val |-> <<" ">>],
       [typ |-> typeFunction, val |-> <<"e", "m", "p", "t", "y">>],
       [typ |-> typeSpace, val |-> <<" ">>],
       [typ |-> typeAnd, val |-> <<"&">>],
       [typ |-> typeSpace, val |-> <<" ">>],
       [typ |-> typeFunction, val |-> <<"i">>],
       [typ |-> typeSpace, val |-> <<" ">>],
       [typ |-> typeOr, val |-> <<"|">>],
       [typ |-> typeSpace, val |-> <<" ">>],
       [typ |-> typeFunction, val |-> <<"o", "n", "e">>],
       [typ |-> typeSpace, val |-> <<" ">>],
       [typ |-> typeAnd, val |-> <<"&">>],
       [typ |-> typeSpace, val |-> <<" ">>],
       [typ |-> typeFunction, val |-> <<"t", "w", "o">>],
       [typ |-> typeSpace, val |-> <<" ", " ">>],
       [typ |-> typeOr, val |-> <<"|">>],
       [typ |-> typeSpace, val |-> <<" ">>],
       [typ |-> typeOpenParen, val |-> <<"(">>],
       [typ |-> typeFunction, val |-> <<"t", "h", "r", "e", "e">>],
       [typ |-> typeSpace, val |-> <<" ">>],
       [typ |-> typeAnd, val |-> <<"&">>],
       [typ |-> typeSpace, val |-> <<" ">>],
       [typ |-> typeFunction, val |-> <<"f", "o", "u", "r">>],
       [typ |-> typeCloseParen, val |-> <<")">>],
       [typ |-> typeSpace, val |-> <<"\t">>],
       [typ |-> typeOr, val |-> <<"|">>],
       [typ |-> typeSpace, val |-> <<" ">>],
       [typ |-> typeFunction, val |-> <<"f", "i", "v", "e">>],
       [typ |-> typeColon, val |-> <<":">>],
       [typ |-> typeSpace, val |-> <<" ">>],
       [typ |-> typeString, val |-> <<"'", "s", "i", "x", "'">>],
       [typ |-> typeComma, val |-> <<",">>],
       [typ |-> typeSpace, val |-> <<" ">>],
       [typ |-> typeNumber, val |-> <<"0", "2", ".", "0">>],
       [typ |-> typeSpace, val |-> <<" ">>],
       [typ |-> typeAnd, val |-> <<"&">>],
       [typ |-> typeSpace, val |-> <<" ">>],
       [typ |-> typeFunction, val |-> <<"s", "e", "v", "e", "n">>],
       [typ |-> typeColon, val |-> <<":">>],
       [typ |-> typeSpace, val |-> <<" ">>],
       [typ |-> typeBool, val |-> <<"f", "a", "l", "s", "e">>],
       [typ |-> typeEOF, val |-> <<>>] >>

\* rule strings of the tests and of the documentation
\* the spec's example of a number run into an identifier
NumberExample == <<"3", "a", "b", "c">>

RuleStrings ==
    { TestLexerInput,
      <<"t", " ", "&", " ", "(", "f", " ", "|", " ", "t", ")", " ", "|", " ", "g">>,
      <<"t", " ", "&", " ", "(", "f", " ", "|", " ", "t", ")">>,
      <<"t", " ", "&", " ", "(", "f", " ", "|", " ", "t", " ", "|", " ", "f", ")">>,
      <<"t", " ", "&", " ", "(", "f", " ", "|", " ", "f", " ", "|", " ", "t", ")",
        " ", "&", " ", "f">>,
      <<"t", " ", "&", " ", "(", "f", " ", "|", " ", "f", " ", "|", " ", "t", " ",
        "&", " ", "f">>,
      <<"e", "q", ":", "1", ",", "2", ",", "3">>,
      <<"e", "q", ":", "a", "l", "p", "h", "a">>,
      <<"x", "o", "r", ":", "I", "n", "t", ",", "S", "t", "r", "i", "n", "g">>,
      <<"f", "u", "n", "c", ":", " ", "'", "h", "e", "l", "l", "o", " ", "w", "o", "r",
        "l", "d", "'", ",", " ", "2">>,
      <<"t", "'", "a", "b", "c">>,
      <<"t", "#">>,
      <<"r", "e", "q", "u", "i", "r", "e", "d", " ", "&", " ", ":", " ", "e", "m",
        "p", "t", "y">>,
      <<"t", " ", "&", " ", ":", " ", "f">>,
      <<"t", " ", ",", " ", "f">>,
      <<"t", " ", "f">>,
      <<"t", " ", "&", " ", "(", "f", " ", "|", " ", "f", " ", "&", " ", "t", ")",
        " ", "t">>,
      <<"t", " ", "&", " ", "(", "f", " ", "|", " ", "f", " ", "t", ")", " ", "&",
        " ", "f">>,
      <<"t", " ", "(", "f", " ", "|", " ", "t", " ", "&", " ", "f", ")">>,
      <<"(", "t", " ", "|", " ", "f", ")", " ", "(", "g", ")">>,
      <<"t", "(", ")", "|", "t", "t">>,
      <<"t", "(", " ", ")", " ", "t", "t">>,
      <<"&", " ", "t", " ", "f">>,
      <<"t", " ", "&", " ", "(", ")">>,
      <<"f", "u", "n", "c", ":", " ", "'", "a", "'", ",", " ", "2", " ", "&", " ", "x">>,
      <<"e", "q", ":", ",", "1", ")">>,
      <<"t", " ", "|", " ", "f", " ", "&", " ", "g">>,
      <<"t", " ", "&", " ", "f", " ", "|", " ", "g">>,
      <<"f", " ", "|", " ", "t", " ", "|", " ", "f", " ", "&", " ", "t">>,
      <<"f", " ", "|", " ", "f", " ", "|", " ", "t", " ", "&", " ", "f">>,
      <<"t", " ", "|", " ", "f", " ", "|", " ", "f", " ", "&", " ", "t">>,
      <<"t", " ", "&", " ", "&", " ", "f">>,
      <<"t", " ", "&", " ", "|", " ", "f">>,
      <<"&", " ", "&", " ", "t">>,
      <<"e", "q", ":", " ", ",", "1", ",", ",", "2", " ", "&", " ", "(", "t", ")">>,
      NumberExample,
      <<"e", "q", ":", "1", ".", "5", "e", "3", "x">>,
      <<"e", "q", ":", "0", "x", "1", "f", "z", ",", "-", "2", "t">> }

RuleNames == {Name_t, Name_f, Name_g}

\* the leaves of the enumerated trees: each rule without parameters, and one with
Leaves ==
    {FunctionNode(r, r, <<>>) : r \in RuleNames}
        \cup {FunctionNode(Name_t, Name_t, <<<<"1">>>>)}

\* what ps.Params may hold when execute is called: nothing, or an earlier list
EarlierParams == {<<>>, <<<<"9">>>>}

\* the trees with exactly k function leaves and both operands everywhere
RECURSIVE TreesOf(_)
TreesOf(k) ==
    IF k = 1 THEN Leaves
    ELSE UNION { { [OperatorNode(typ, a) EXCEPT !.B = b] :
                     typ \in {typeAnd, typeOr}, a \in TreesOf(i), b \in TreesOf(k - i) }
                 : i \in 1..(k - 1) }

\* the trees with up to n function leaves
Trees(n) == UNION {TreesOf(k) : k \in 1..n}

NoResult == [err |-> NilErr, panic |-> FALSE]

----------------------------------------------------------------------------
(* Errors (error.go).  An error value is [Type, Message, errs]: a           *)
(* *FieldError or a plain error carries a message, a FieldErrors value the  *)
(* list of its errors.                                                      *)

NilError == [Type |-> "nil", Message |-> <<>>, errs |-> <<>>]

\* &FieldError{Message: m}
FieldError(m) == [Type |-> "FieldError", Message |-> m, errs |-> <<>>]

\* a FieldErrors list as an error value
FieldErrors(list) == [Type |-> "FieldErrors", Message |-> <<>>, errs |-> list]

\* fmt.Errorf and errors.New
PlainError(m) == [Type |-> "error", Message |-> m, errs |-> <<>>]

\* err.(Errors): only FieldErrors has the method Errors
implementsErrors(err) == err.Type = "FieldErrors"

\* FieldErrors.Add that appends the sub-errors in place of the composite
RECURSIVE AddFlat(_, _)
AddFlat(list, errs) ==
    IF errs = <<>> THEN list
    ELSE IF implementsErrors(Head(errs))
    THEN AddFlat(AddFlat(list, Head(errs).errs), Tail(errs))
    ELSE AddFlat(Append(list, Head(errs)), Tail(errs))

\* FieldErrors.Add: each error's sub-errors are added, then the error itself
RECURSIVE Add(_, _)
Add(list, errs) ==
    IF errs = <<>> THEN list
    ELSE IF implementsErrors(Head(errs))
    THEN Add(Append(Add(list, Head(errs).errs), Head(errs)), Tail(errs))
    ELSE Add(Append(list, Head(errs)), Tail(errs))

\* json.Marshal of the errors of a list, with commas between: a FieldError is
\* its quoted message (MarshalJSON), a plain error has no exported field
RECURSIVE joinQuoted(_, _)
joinQuoted(errs, i) ==
    IF i > Len(errs) THEN <<>>
    ELSE (IF i > 1 THEN <<",">> ELSE <<>>)
            \o (IF implementsErrors(errs[i])
                THEN <<"[">> \o joinQuoted(errs[i].errs, 1) \o <<"]">>
                ELSE IF errs[i].Type = "FieldError"
                THEN <<"\"">> \o errs[i].Message \o <<"\"">>
                ELSE <<"{}">>)
            \o joinQuoted(errs, i + 1)

\* err.Error(): the message, and for FieldErrors the JSON array of its errors
ErrorText(err) ==
    IF implementsErrors(err) THEN <<"[">> \o joinQuoted(err.errs, 1) \o <<"]">>
    ELSE err.Message

----------------------------------------------------------------------------
(* The validator (parse.go: New, Validate, traverse, CheckSyntax).  A      *)
(* value is [kind, zero, fields, elems]; a struct field is [name, tag,     *)
(* value], its tag a function from tag keys to rule strings.               *)

DefaultTag == "validate"

\* a nil Rules map
NoRules == [r \in {} |-> r]

\* the default registry: each rule function is named by its rule
DefaultRules == [r \in {Name_required, Name_empty, Name_eq, Name_xor} |-> r]

\* New: the defaults, then the tag and the rules of the first Config given
New(cfg) ==
    [tag   |-> IF cfg # <<>> /\ cfg[1].Tag # "" THEN cfg[1].Tag ELSE DefaultTag,
     rules |-> IF cfg # <<>> /\ DOMAIN cfg[1].Rules # {} THEN cfg[1].Rules
               ELSE DefaultRules]

\* newParser: nothing cached, the tokenizer not yet run, the lock free; the
\* cache is a set of entries [text, n, by]: the rule string, its tree, and the
\* goroutine that parsed it (0 when there is one only); lexed lists the strings
\* the tokenizer was run on, mu is the goroutine holding the lock or 0
newParser == [cache |-> {}, lexed |-> <<>>, mu |-> 0]

\* the rule string has an entry in the cache
isCached(cache, validator) == \E e \in cache : e.text = validator

\* the tree cached for the rule string
cachedTree(cache, validator) == (CHOOSE e \in cache : e.text = validator).n

\* an insertion that adds the tree whatever is cached
cacheInsertAlways(cache, validator, n, by) ==
    cache \cup {[text |-> validator, n |-> n, by |-> by]}

\* insert-if-absent
cacheInsert(cache, validator, n, by) ==
    IF isCached(cache, validator) THEN cache
    ELSE cache \cup {[text |-> validator, n |-> n, by |-> by]}

\* the parser after the tokenizer and the parser ran on the rule string and
\* returned r: a tree parsed without error is cached
parserStore(p, validator, r) ==
    [n |-> r.n, err |-> r.err,
     parser |-> [p EXCEPT !.lexed = Append(@, validator),
                          !.cache = IF r.err = NoError THEN cacheInsert(@, validator, r.n, 0)
                                    ELSE @]]

\* a parser.parse that never looks in the cache
parserParseAlways(p, validator, rules) == parserStore(p, validator, parse(validator, rules))

\* parser.parse: the cached tree, else the tree parsed now and cached on success
parserParse(p, validator, rules) ==
    IF isCached(p.cache, validator)
    THEN [n |-> cachedTree(p.cache, validator), err |-> NoError, parser |-> p]
    ELSE parserStore(p, validator, parse(validator, rules))

StringValue(zero) == [kind |-> "string", zero |-> zero, fields |-> <<>>, elems |-> <<>>]

StructValue(fields) == [kind |-> "struct", zero |-> FALSE, fields |-> fields, elems |-> <<>>]

SliceValue(elems) == [kind |-> "slice", zero |-> elems = <<>>, fields |-> <<>>, elems |-> elems]

StructField(name, tag, value) == [name |-> name, tag |-> tag, value |-> value]

\* a lookup that falls back on the text stored under any key
LookupAny(tag, key) ==
    IF key \in DOMAIN tag THEN [ok |-> TRUE, val |-> tag[key]]
    ELSE IF DOMAIN tag \ {"json"} # {}
    THEN [ok |-> TRUE, val |-> tag[CHOOSE k \in DOMAIN tag \ {"json"} : TRUE]]
    ELSE [ok |-> FALSE, val |-> <<>>]

\* field.Tag.Lookup(key)
Lookup(tag, key) ==
    IF key \in DOMAIN tag THEN [ok |-> TRUE, val |-> tag[key]]
    ELSE [ok |-> FALSE, val |-> <<>>]

\* the rules that return an error on a field: the always-failing rules of the
\* tests, Required and EQ on a zero value, Empty on a value that is set
failingOn(value) ==
    TestFails \cup (IF value.zero THEN {Name_required, Name_eq} ELSE {Name_empty})

\* err.Error() of the error a rule returned for the field named name
ruleMessage(r, name) ==
    IF r = Name_required THEN <<"'">> \o name \o <<"' is required">>
    ELSE IF r = Name_empty
    THEN <<"'">> \o name \o <<"' should position omitempty before other tags">>
    ELSE IF r = Name_eq THEN <<"'">> \o name \o <<"' must equal">>
    ELSE IF r = Name_f THEN <<"fail">>
    ELSE <<"error called">>

\* the state a traversal threads: the parser, the rule invocations by field, and
\* the panic that ended it
NoPanic(p) == [parser |-> p, invoked |-> <<>>, panic |-> FALSE, value |-> <<>>]

\* traverse after parsed.execute(&ps) returned r
afterExecute(isSyntaxCheck, field, errs, st, r) ==
    IF r.panic
    THEN [errs |-> errs,
          st |-> [st EXCEPT !.panic = TRUE, !.value = r.value,
                            !.invoked = Append(@, [field |-> field.name, calls |-> r.st.calls])]]
    ELSE [errs |-> IF r.err # NilErr /\ ~isSyntaxCheck
                   THEN Add(errs, <<FieldError(ruleMessage(r.err.rule, field.name))>>)
                   ELSE errs,
          st |-> [st EXCEPT !.invoked = Append(@, [field |-> field.name, calls |-> r.st.calls])]]

\* traverse after v.parser.parse returned p
afterParse(isSyntaxCheck, field, errs, st, p) ==
    IF p.err # NoError
    THEN [errs |-> Add(errs, <<FieldError(p.err)>>), st |-> [st EXCEPT !.parser = p.parser]]
    ELSE afterExecute(isSyntaxCheck, field, errs, [st EXCEPT !.parser = p.parser],
                      execute(p.n, <<>>, failingOn(field.value),
                              [Params |-> <<>>, calls |-> <<>>]))

\* traverse: validate a field with the validation tag
validateField(vd, isSyntaxCheck, field, lk, errs, st) ==
    IF lk.ok
    THEN afterParse(isSyntaxCheck, field, errs, st, parserParse(st.parser, lk.val, vd.rules))
    ELSE [errs |-> errs, st |-> st]

\* errs.Add(es...) when len(es) > 0
addNested(own, nested) ==
    [errs |-> IF Len(nested.errs) > 0 THEN Add(own.errs, nested.errs) ELSE own.errs,
     st |-> nested.st]

RECURSIVE traverse(_, _, _, _)
RECURSIVE traverseElems(_, _, _, _, _)
RECURSIVE traverseFields(_, _, _, _, _)
RECURSIVE traverseNested(_, _, _, _, _)

\* traverse: the field if possible, then the fields after it
traverseNested(vd, isSyntaxCheck, fields, i, own) ==
    IF own.st.panic THEN own
    ELSE IF fields[i].value.kind \in {"struct", "slice"}
    THEN traverseFields(vd, isSyntaxCheck, fields, i + 1,
                        addNested(own, traverse(vd, isSyntaxCheck, fields[i].value, own.st)))
    ELSE traverseFields(vd, isSyntaxCheck, fields, i + 1, own)

\* traverse: the fields of a struct from the i-th on
traverseFields(vd, isSyntaxCheck, fields, i, acc) ==
    IF i > Len(fields) \/ acc.st.panic THEN acc
    ELSE traverseNested(vd, isSyntaxCheck, fields, i,
                        validateField(vd, isSyntaxCheck, fields[i],
                                      Lookup(fields[i].tag, vd.tag), acc.errs, acc.st))

\* traverse: the elements of a slice or array from the i-th on
traverseElems(vd, isSyntaxCheck, elems, i, acc) ==
    IF i > Len(elems) \/ acc.st.panic THEN acc
    ELSE traverseElems(vd, isSyntaxCheck, elems, i + 1,
                       addNested(acc, traverse(vd, isSyntaxCheck, elems[i], acc.st)))

\* traverse: [errs, st]
traverse(vd, isSyntaxCheck, iValue, st) ==
    IF iValue.kind = "slice"
    THEN traverseElems(vd, isSyntaxCheck, iValue.elems, 1, [errs |-> <<>>, st |-> st])
    ELSE IF iValue.kind = "struct"
    THEN traverseFields(vd, isSyntaxCheck, iValue.fields, 1, [errs |-> <<>>, st |-> st])
    ELSE [errs |-> <<>>, st |-> st]

\* what a call returned: the call, its error, whether it panicked and with what,
\* the rule invocations it made, and the number of calls so far
NoOut == [call |-> "none", err |-> NilError, panic |-> FALSE, value |-> <<>>,
          invoked |-> <<>>, n |-> 0]

\* Validate: the errors of the traversal, nil when there is none; a panic goes
\* through to the caller
validateReturn(r, n) ==
    [call |-> "Validate",
     err |-> IF r.st.panic \/ Len(r.errs) = 0 THEN NilError ELSE FieldErrors(r.errs),
     panic |-> r.st.panic, value |-> r.st.value, invoked |-> r.st.invoked, n |-> n]

\* CheckSyntax without the deferred recover
checkSyntaxNoRecover(r, n) ==
    [call |-> "CheckSyntax",
     err |-> IF r.st.panic THEN NilError ELSE FieldErrors(r.errs),
     panic |-> r.st.panic, value |-> r.st.value, invoked |-> r.st.invoked, n |-> n]

\* CheckSyntax: the errors of the traversal, or the recovered panic as an error
checkSyntaxReturn(r, n) ==
    [call |-> "CheckSyntax",
     err |-> IF r.st.panic THEN PlainError(r.st.value) ELSE FieldErrors(r.errs),
     panic |-> FALSE, value |-> <<>>, invoked |-> r.st.invoked, n |-> n]

----------------------------------------------------------------------------
(* The rule XOR (lexer.go).  It returns [err, panic, value]: the error, or *)
(* the value it panicked with.  The structs are of unnamed types, so       *)
(* parent.Type().Name() is the empty string.                               *)

\* hasValue: the value is not the zero value of its type
hasValue(value) == ~value.zero

\* pType.FieldByName(param): the index of the field, 0 when there is none
FieldByName(parent, param) ==
    IF \E i \in 1..Len(parent.fields) : parent.fields[i].name = param
    THEN CHOOSE i \in 1..Len(parent.fields) : parent.fields[i].name = param
    ELSE 0

\* strings.Split(s, ",")[0]
RECURSIVE beforeComma(_)
beforeComma(s) ==
    IF s = <<>> \/ Head(s) = "," THEN <<>> ELSE <<Head(s)>> \o beforeComma(Tail(s))

\* the json name of a field, the field's name when it has none
jsonName(f) ==
    IF Lookup(f.tag, "json").ok THEN beforeComma(Lookup(f.tag, "json").val) ELSE f.name

\* the panic of XOR on a parameter that names no field of the parent
xorPanic(param) == <<"'", ".">> \o param \o <<"' is not a valid field">>

\* the template of XOR's error over the field names from the i-th on
RECURSIVE xorMessage(_, _)
xorMessage(fieldNames, i) ==
    IF i > Len(fieldNames) THEN <<" must be set">>
    ELSE (IF i = 1 THEN <<"either ">> ELSE IF i = Len(fieldNames) THEN <<" or ">> ELSE <<", ">>)
            \o <<"'">> \o fieldNames[i] \o <<"'">> \o xorMessage(fieldNames, i + 1)

\* the loop of XOR over params from the i-th on
RECURSIVE xorScan(_, _, _, _, _)
xorScan(params, parent, i, populated, fieldNames) ==
    IF i > Len(params)
    THEN [panic |-> FALSE, value |-> <<>>, populated |-> populated, fieldNames |-> fieldNames]
    ELSE IF FieldByName(parent, params[i]) = 0
    THEN [panic |-> TRUE, value |-> xorPanic(params[i]), populated |-> populated,
          fieldNames |-> fieldNames]
    ELSE xorScan(params, parent, i + 1,
                 IF hasValue(parent.fields[FieldByName(parent, params[i])].value)
                 THEN populated + 1 ELSE populated,
                 Append(fieldNames, jsonName(parent.fields[FieldByName(parent, params[i])])))

\* an XOR that also passes when nothing is set
XORAtMostOne(params, parent, field, fieldName) ==
    LET s == xorScan(params, parent, 1, IF hasValue(field) THEN 1 ELSE 0, <<fieldName>>)
    IN  IF s.panic THEN [err |-> NilError, panic |-> TRUE, value |-> s.value]
        ELSE IF s.populated <= 1 THEN [err |-> NilError, panic |-> FALSE, value |-> <<>>]
        ELSE [err |-> PlainError(xorMessage(s.fieldNames, 1)), panic |-> FALSE, value |-> <<>>]

\* XOR: nil when exactly one of the counted values is set
XOR(params, parent, field, fieldName) ==
    LET s == xorScan(params, parent, 1, IF hasValue(field) THEN 1 ELSE 0, <<fieldName>>)
    IN  IF s.panic THEN [err |-> NilError, panic |-> TRUE, value |-> s.value]
        ELSE IF s.populated = 1 THEN [err |-> NilError, panic |-> FALSE, value |-> <<>>]
        ELSE [err |-> PlainError(xorMessage(s.fieldNames, 1)), panic |-> FALSE, value |-> <<>>]

----------------------------------------------------------------------------
(* Actions.                                                                *)

\* no token returned yet
NoToken == [typ |-> "none", val |-> <<>>]

\* the parts of the state a run leaves alone when it does not use them
LexerIdle == lx = newLexer(<<>>) /\ tk = NoToken

ValidatorIdle ==
    /\ v = [tag |-> "", rules |-> NoRules]
    /\ record = StructValue(<<>>)
    /\ out = NoOut

ErrorsIdle == es = [list |-> <<>>, last |-> NilError, via |-> "none"]

CacheIdle == parser = newParser /\ threads = <<>>

ParseIdle ==
    /\ pc = "idle"
    /\ input = <<>>
    /\ fails = {}
    /\ tree = NoNode
    /\ perr = NoError
    /\ groups = <<>>
    /\ result = NoResult
    /\ ps = [Params |-> <<>>]
    /\ calls = <<>>

\* parse(validator, rules) on the rule string
Parse ==
    /\ pc = "start"
    /\ LET r == parse(input, ParserRules)
       IN  /\ tree' = r.n
           /\ perr' = r.err
           /\ groups' = r.groups
    /\ pc' = "parsed"
    /\ UNCHANGED <<input, fails, result, ps, calls>>
    /\ UNCHANGED hostVars

\* parsed.execute(&ps) on the tree parse returned without error
Execute ==
    /\ pc = "parsed"
    /\ perr = NoError
    /\ LET r == execute(tree, <<>>, fails, [Params |-> ps.Params, calls |-> calls])
       IN  /\ result' = [err |-> r.err, panic |-> r.panic]
           /\ ps' = [ps EXCEPT !.Params = r.st.Params]
           /\ calls' = r.st.calls
    /\ pc' = "done"
    /\ UNCHANGED <<input, fails, tree, perr, groups>>
    /\ UNCHANGED hostVars

\* a rule string of a field's tag, about to be parsed and evaluated
Init ==
    /\ pc = "start"
    /\ \/ \E n \in 0..MaxLen : input \in [1..n -> Alphabet]
       \/ input \in RuleStrings
    /\ fails = TestFails
    /\ tree = NoNode
    /\ perr = NoError
    /\ groups = <<>>
    /\ result = NoResult
    /\ ps = [Params |-> <<>>]
    /\ calls = <<>>
    /\ LexerIdle /\ ValidatorIdle /\ ErrorsIdle /\ CacheIdle

Step == Parse \/ Execute

Spec == Init /\ [][Step]_vars

\* a rule string is parsed and the tree is left unevaluated
NextParse == Parse

SpecParse == Init /\ [][NextParse]_vars

\* a complete tree and an assignment of outcomes to the rule functions
InitExec ==
    /\ pc = "parsed"
    /\ input = <<>>
    /\ tree \in Trees(MaxLeaves)
    /\ fails \in SUBSET RuleNames
    /\ perr = NoError
    /\ groups = <<>>
    /\ result = NoResult
    /\ ps \in [Params : EarlierParams]
    /\ calls = <<>>
    /\ LexerIdle /\ ValidatorIdle /\ ErrorsIdle /\ CacheIdle

NextExec == Execute

SpecExec == InitExec /\ [][NextExec]_vars

\* the characters of the buffers of a lexer driven call by call
LexerAlphabet == {"(", ")", "t", " "}

\* l.Next()
LexNext ==
    /\ tk' = Next(lx).tok
    /\ lx' = Next(lx).lex
    /\ UNCHANGED <<parseVars, v, record, out, es, parser, threads>>

\* l.Backup()
LexBackup ==
    /\ lx' = Backup(lx)
    /\ UNCHANGED <<parseVars, tk, v, record, out, es, parser, threads>>

\* l.Peak()
LexPeak ==
    /\ tk' = Peak(lx).tok
    /\ lx' = Peak(lx).lex
    /\ UNCHANGED <<parseVars, v, record, out, es, parser, threads>>

\* a new lexer over a buffer, before any call
InitLexer ==
    /\ \E n \in 0..MaxBuf : \E buffer \in [1..n -> LexerAlphabet] : lx = newLexer(buffer)
    /\ tk = NoToken
    /\ ParseIdle /\ ValidatorIdle /\ ErrorsIdle /\ CacheIdle

NextLexer == LexNext \/ LexBackup \/ LexPeak

SpecLexer == InitLexer /\ [][NextLexer]_vars

\* the pieces the buffers of the scanning runs are put together from: quotes,
\* the boolean words, identifier characters, the characters of a number, a space
ScanPieces ==
    { <<"'">>, <<"\"">>, <<"t", "r", "u", "e">>, <<"f", "a", "l", "s", "e">>, <<"x">>, <<"_">>,
      <<"+">>, <<"-">>, <<".">>, <<"1">>, <<" ">> }

\* the buffers of up to n pieces
RECURSIVE PieceStrings(_)
PieceStrings(n) ==
    IF n = 0 THEN {<<>>}
    ELSE PieceStrings(n - 1) \cup {b \o piece : b \in PieceStrings(n - 1), piece \in ScanPieces}

\* a new lexer over a buffer of pieces, before any call
InitScan ==
    /\ lx \in {newLexer(buffer) : buffer \in PieceStrings(MaxPieces)}
    /\ tk = NoToken
    /\ ParseIdle /\ ValidatorIdle /\ ErrorsIdle /\ CacheIdle

NextScan == LexNext

\* the lexer driven by Next calls alone
SpecScan == InitScan /\ [][NextScan]_vars

\* the rules of the tests: an always-passing and an always-failing rule
TestRules == [r \in {Name_t, Name_f} |-> r]

\* caller's rules that redefine `required` as the always-passing rule
OverrideRules == [r \in {Name_required, Name_f} |-> IF r = Name_required THEN Name_t ELSE r]

\* the arguments of New: none, or one Config
Configs ==
    {<<>>} \cup { <<[Tag |-> t, Rules |-> r]>> : t \in {"", "test"},
                                                 r \in {NoRules, TestRules, OverrideRules} }

\* a rule string with a syntax error
BadSyntax == <<"t", " ", "&", " ", ":", " ", "f">>

\* the tags and values of enumerated fields: no tag, the tag of the tests under
\* the default key and under another key, an empty tag, a rule run into a
\* programmer error, a syntax error
FieldChoices ==
    { [key |-> "", text |-> <<>>, zero |-> TRUE],
      [key |-> "validate", text |-> Name_f, zero |-> TRUE],
      [key |-> "validate", text |-> Name_t, zero |-> TRUE],
      [key |-> "validate", text |-> Name_required, zero |-> TRUE],
      [key |-> "validate", text |-> Name_required, zero |-> FALSE],
      [key |-> "validate", text |-> <<>>, zero |-> TRUE],
      [key |-> "validate", text |-> Name_eq, zero |-> TRUE],
      [key |-> "validate", text |-> BadSyntax, zero |-> TRUE],
      [key |-> "test", text |-> Name_f, zero |-> TRUE] }

\* a struct tag: the json name, and a rule string under a key
TagOf(name, key, text) ==
    IF key = "" THEN [k \in {"json"} |-> name]
    ELSE [k \in {"json", key} |-> IF k = "json" THEN name ELSE text]

\* the i-th field of an enumerated struct
FieldOf(i, c) ==
    StructField(<<"F">> \o IntToChars(i), TagOf(<<"F">> \o IntToChars(i), c.key, c.text),
                StringValue(c.zero))

\* structs of string fields
FlatRecords ==
    UNION { { StructValue([i \in 1..n |-> FieldOf(i, cs[i])]) : cs \in [1..n -> FieldChoices] } :
            n \in 1..MaxFields }

\* an element of the slices of the nested records
Element(x, y) ==
    StructValue(<< StructField(<<"X">>, TagOf(<<"X">>, "validate", Name_required), StringValue(x)),
                   StructField(<<"Y">>, TagOf(<<"Y">>, "validate", Name_required), StringValue(y)) >>)

\* structs with a struct and a slice nested under annotated fields, and a slice
NestedRecords ==
    { StructValue(<< StructField(<<"A">>, TagOf(<<"A">>, "validate", Name_required),
                                 [Element(TRUE, FALSE) EXCEPT !.zero = TRUE]),
                     StructField(<<"B">>, TagOf(<<"B">>, "validate", Name_f), StringValue(TRUE)) >>),
      StructValue(<< StructField(<<"S">>, TagOf(<<"S">>, "validate", Name_empty),
                                 SliceValue(<<Element(TRUE, FALSE), Element(FALSE, TRUE)>>)),
                     StructField(<<"B">>, TagOf(<<"B">>, "validate", Name_required),
                                 StringValue(TRUE)) >>),
      SliceValue(<<Element(FALSE, TRUE), Element(TRUE, TRUE)>>) }

\* the struct of the test `multiple errors are returned`
ThreeFails ==
    StructValue(<< StructField(<<"One">>, TagOf(<<"One">>, "validate", Name_f), StringValue(TRUE)),
                   StructField(<<"Two">>, TagOf(<<"Two">>, "validate", Name_f), StringValue(TRUE)),
                   StructField(<<"Three">>, TagOf(<<"Three">>, "validate", Name_f),
                               StringValue(TRUE)) >>)

\* the struct of the test `checks for bad syntax in the validate tag`
BadSyntaxRecord ==
    StructValue(<< StructField(<<"a">>,
                               TagOf(<<"a">>, "validate",
                                     <<"r", "e", "q", "u", "i", "r", "e", "d", " ", "&", " ", ":",
                                       " ", "e", "m", "p", "t", "y">>),
                               StringValue(TRUE)) >>)

Records == FlatRecords \cup NestedRecords \cup {ThreeFails, BadSyntaxRecord}

\* v.Validate(record)
DoValidate ==
    /\ out.n < MaxCalls
    /\ LET r == traverse(v, FALSE, record, NoPanic(parser))
       IN  /\ out' = validateReturn(r, out.n + 1)
           /\ parser' = r.st.parser
    /\ UNCHANGED <<parseVars, lx, tk, v, record, es, threads>>

\* v.CheckSyntax(record)
DoCheckSyntax ==
    /\ out.n < MaxCalls
    /\ LET r == traverse(v, TRUE, record, NoPanic(parser))
       IN  /\ out' = checkSyntaxReturn(r, out.n + 1)
           /\ parser' = r.st.parser
    /\ UNCHANGED <<parseVars, lx, tk, v, record, es, threads>>

\* a validator New returned, and a record to hand to it
InitValidate ==
    /\ v \in { New(cfg) : cfg \in Configs }
    /\ record \in Records
    /\ out = NoOut
    /\ parser = newParser
    /\ threads = <<>>
    /\ ParseIdle /\ LexerIdle /\ ErrorsIdle

NextValidate == DoValidate \/ DoCheckSyntax

SpecValidate == InitValidate /\ [][NextValidate]_vars

\* the goroutines that validate concurrently with one validator
Threads == 1..MaxThreads

\* the rule strings the goroutines parse
CacheTexts == {Name_t, Name_f}

\* a goroutine between two calls of parser.parse: the rule string and the tree
\* of its last call
IdleThread == [pc |-> "idle", text |-> <<>>, n |-> NoNode, err |-> NoError]

\* a goroutine calls parser.parse on a rule string
CacheBegin(t) ==
    /\ threads[t].pc = "idle"
    /\ \E text \in CacheTexts :
          threads' = [threads EXCEPT ![t] = [pc |-> "lookup", text |-> text, n |-> NoNode,
                                             err |-> NoError]]
    /\ UNCHANGED <<parseVars, lx, tk, v, record, out, es, parser>>

\* the lookup: a cached tree is returned, else the string is to be parsed
CacheLookup(t) ==
    /\ threads[t].pc = "lookup"
    /\ threads' = [threads EXCEPT ![t] =
          IF isCached(parser.cache, @.text)
          THEN [@ EXCEPT !.pc = "idle", !.n = cachedTree(parser.cache, threads[t].text)]
          ELSE [@ EXCEPT !.pc = "parse"]]
    /\ UNCHANGED <<parseVars, lx, tk, v, record, out, es, parser>>

\* the tokenizer and the parser run outside the lock; an error is returned
CacheParse(t) ==
    /\ threads[t].pc = "parse"
    /\ LET r == parse(threads[t].text, v.rules)
       IN  threads' = [threads EXCEPT ![t] =
              [@ EXCEPT !.pc = IF r.err = NoError THEN "lock" ELSE "idle",
                        !.n = r.n, !.err = r.err]]
    /\ parser' = [parser EXCEPT !.lexed = Append(@, threads[t].text)]
    /\ UNCHANGED <<parseVars, lx, tk, v, record, out, es>>

\* the lock is taken when it is free
CacheLock(t) ==
    /\ threads[t].pc = "lock"
    /\ parser.mu = 0
    /\ parser' = [parser EXCEPT !.mu = t]
    /\ threads' = [threads EXCEPT ![t].pc = "insert"]
    /\ UNCHANGED <<parseVars, lx, tk, v, record, out, es>>

\* under the lock the tree is inserted if the string has none, and the cached
\* tree is what the call returns
CacheInsert(t) ==
    /\ threads[t].pc = "insert"
    /\ parser' = [parser EXCEPT !.cache = cacheInsert(@, threads[t].text, threads[t].n, t)]
    /\ threads' = [threads EXCEPT ![t] =
          [@ EXCEPT !.pc = "unlock",
                    !.n = cachedTree(cacheInsert(parser.cache, threads[t].text,
                                                 threads[t].n, t),
                                     threads[t].text)]]
    /\ UNCHANGED <<parseVars, lx, tk, v, record, out, es>>

\* the lock is released and the call returns
CacheUnlock(t) ==
    /\ threads[t].pc = "unlock"
    /\ parser' = [parser EXCEPT !.mu = 0]
    /\ threads' = [threads EXCEPT ![t].pc = "idle"]
    /\ UNCHANGED <<parseVars, lx, tk, v, record, out, es>>

\* goroutines that share the parser of one validator
InitCache ==
    /\ v = New(<<[Tag |-> "", Rules |-> TestRules]>>)
    /\ record = StructValue(<<>>)
    /\ out = NoOut
    /\ parser = newParser
    /\ threads = [t \in Threads |-> IdleThread]
    /\ ParseIdle /\ LexerIdle /\ ErrorsIdle

NextCache ==
    \E t \in Threads :
        \/ CacheBegin(t)
        \/ CacheLookup(t)
        \/ CacheParse(t)
        \/ CacheLock(t)
        \/ CacheInsert(t)
        \/ CacheUnlock(t)

SpecCache == InitCache /\ [][NextCache]_vars

\* CheckSyntax step by step: the caller, the goroutine it starts, and the
\* unbuffered channel between them.  threads is [caller, worker, offer, closed,
\* sends, zero, r, next]: the two positions, the value a blocked send offers,
\* whether the channel is closed, the number of sends begun, whether the caller
\* received the zero value of the closed channel, the result of the traversal
\* (a function of the validator and the record alone, so the state holds it from
\* the call on), and where the goroutine goes on after its send

\* no value: nothing is offered on the channel
NoValue == [Type |-> "none", Message |-> <<>>, errs |-> <<>>]

\* out := make(chan error); go func() {...}()
ChanGo ==
    /\ threads.caller = "call"
    /\ threads' = [threads EXCEPT !.caller = "receive", !.worker = "traverse"]
    /\ UNCHANGED <<parseVars, lx, tk, v, record, out, es, parser>>

\* the goroutine: v.traverse(language.English, true, iValue, iValue) returns, or
\* panics and the deferred calls run; threads.r is what the traversal returns
ChanTraverse ==
    /\ threads.worker = "traverse"
    /\ threads' = [threads EXCEPT !.worker = IF threads.r.st.panic THEN "recover" ELSE "send",
                                  !.next = "recover"]
    /\ parser' = threads.r.st.parser
    /\ UNCHANGED <<parseVars, lx, tk, v, record, out, es>>

\* a deferred function that recovers and sends nothing
ChanRecoverSilent ==
    /\ threads.worker = "recover"
    /\ threads' = [threads EXCEPT !.worker = "close", !.r.st.panic = FALSE]
    /\ UNCHANGED <<parseVars, lx, tk, v, record, out, es, parser>>

\* the deferred function: recover(), and the send of the panic value if there is one
ChanRecover ==
    /\ threads.worker = "recover"
    /\ threads' = [threads EXCEPT !.worker = IF threads.r.st.panic THEN "send" ELSE "close",
                                  !.next = "close",
                                  !.r.st.panic = FALSE]
    /\ UNCHANGED <<parseVars, lx, tk, v, record, out, es, parser>>

\* out <- value: the send blocks until the value is received
ChanSend ==
    /\ threads.worker = "send"
    /\ ~threads.closed
    /\ threads' = [threads EXCEPT
                      !.worker = "sending",
                      !.sends = @ + 1,
                      !.offer = IF threads.next = "close" THEN PlainError(threads.r.st.value)
                                ELSE FieldErrors(threads.r.errs)]
    /\ UNCHANGED <<parseVars, lx, tk, v, record, out, es, parser>>

\* return <-out: the value of a blocked send, or the zero value once the channel
\* is closed; the send returns
ChanReceive ==
    /\ threads.caller = "receive"
    /\ threads.offer # NoValue \/ threads.closed
    /\ threads' = [threads EXCEPT
                      !.caller = "returned",
                      !.worker = IF threads.offer # NoValue THEN threads.next ELSE @,
                      !.offer = NoValue,
                      !.zero = threads.offer = NoValue]
    /\ out' = [call |-> "CheckSyntax",
               err |-> IF threads.offer # NoValue THEN threads.offer ELSE NilError,
               panic |-> FALSE, value |-> <<>>, invoked |-> threads.r.st.invoked, n |-> 1]
    /\ UNCHANGED <<parseVars, lx, tk, v, record, es, parser>>

\* the deferred close(out); the goroutine ends
ChanClose ==
    /\ threads.worker = "close"
    /\ threads' = [threads EXCEPT !.worker = "done", !.closed = TRUE]
    /\ UNCHANGED <<parseVars, lx, tk, v, record, out, es, parser>>

\* a validator and a record, CheckSyntax about to be called
InitChan ==
    /\ v \in { New(cfg) : cfg \in {<<>>, <<[Tag |-> "", Rules |-> TestRules]>>} }
    /\ record \in Records
    /\ out = NoOut
    /\ parser = newParser
    /\ threads = [caller |-> "call", worker |-> "none", offer |-> NoValue, closed |-> FALSE,
                  sends |-> 0, zero |-> FALSE,
                  r |-> traverse(v, TRUE, record, NoPanic(newParser)), next |-> "none"]
    /\ ParseIdle /\ LexerIdle /\ ErrorsIdle

NextChan == ChanGo \/ ChanTraverse \/ ChanRecover \/ ChanSend \/ ChanReceive \/ ChanClose

\* the caller and the goroutine are scheduled for as long as they can run
SpecChan == InitChan /\ [][NextChan]_vars /\ WF_vars(NextChan)

\* the leaf errors added to a list
LeafErrors == {FieldError(<<"a">>), FieldError(<<"b">>), PlainError(<<"c">>)}

\* the errors added to a list: a leaf, or a composite of up to MaxSub leaves
AddedErrors ==
    LeafErrors \cup
    UNION { {FieldErrors(sub) : sub \in [1..n -> LeafErrors]} : n \in 0..MaxSub }

\* errs.Add(err)
AddError ==
    /\ Len(es.list) < MaxSub
    /\ \E err \in AddedErrors :
          es' = [list |-> Add(es.list, <<err>>), last |-> err, via |-> "Add"]
    /\ UNCHANGED <<parseVars, lx, tk, v, record, out, parser, threads>>

\* traverse, when a rule returned err: errs.Add(&FieldError{Message: err.Error()})
AddRuleError ==
    /\ Len(es.list) < MaxSub
    /\ \E err \in AddedErrors :
          es' = [list |-> Add(es.list, <<FieldError(ErrorText(err))>>), last |-> err,
                 via |-> "rule"]
    /\ UNCHANGED <<parseVars, lx, tk, v, record, out, parser, threads>>

\* an empty list of errors
InitErrors ==
    /\ es = [list |-> <<>>, last |-> NilError, via |-> "none"]
    /\ ParseIdle /\ LexerIdle /\ ValidatorIdle /\ CacheIdle

NextErrors == AddError \/ AddRuleError

SpecErrors == InitErrors /\ [][NextErrors]_vars

\* the names of the fields of the struct of the test of xor, and their json names
XorNames == << <<"U", "i", "n", "t">>, <<"I", "n", "t">>, <<"S", "t", "r", "i", "n", "g">> >>

XorJson == << <<"a">>, <<"b">>, <<"c">> >>

\* a name that no field of the struct has
XorMissing == <<"N", "o", "n", "e">>

\* the struct of the test of xor, with each field set or left at its zero value
XorRecord(zeros) ==
    StructValue([i \in 1..3 |->
        StructField(XorNames[i], [k \in {"json"} |-> XorJson[i]], StringValue(zeros[i]))])

\* the parameter lists handed to XOR: names of fields and a name of none
XorParams ==
    UNION { [1..n -> {XorNames[1], XorNames[2], XorNames[3], XorMissing}] : n \in 0..MaxParams }

\* XOR(ps) with ps.Field the i-th field of the parent and ps.Params the list
DoXor ==
    /\ \E i \in 1..3 : \E params \in XorParams :
          LET r == XOR(params, record, record.fields[i].value, jsonName(record.fields[i]))
          IN  out' = [call |-> "XOR", err |-> r.err, panic |-> r.panic, value |-> r.value,
                      invoked |-> <<>>, n |-> 1, field |-> i, params |-> params]
    /\ UNCHANGED <<parseVars, lx, tk, v, record, es, parser, threads>>

\* a parent struct with some of its fields set
InitXor ==
    /\ v = [tag |-> "", rules |-> NoRules]
    /\ record \in { XorRecord(zeros) : zeros \in [1..3 -> BOOLEAN] }
    /\ out = NoOut
    /\ ParseIdle /\ LexerIdle /\ ErrorsIdle /\ CacheIdle

NextXor == DoXor

SpecXor == InitXor /\ [][NextXor]_vars

----------------------------------------------------------------------------
(* Operators the properties are stated with.                               *)

\* the evaluation state before any rule function ran
NoCalls == [Params |-> <<>>, calls |-> <<>>]

\* every node of a tree with the path of A/B steps that leads to it
RECURSIVE NodesAt(_, _)
NodesAt(n, path) ==
    IF IsNil(n) THEN {}
    ELSE {[path |-> path, node |-> n]}
         \cup NodesAt(n.A, Append(path, "A")) \cup NodesAt(n.B, Append(path, "B"))

IsPrefix(p, q) == Len(p) <= Len(q) /\ SubSeq(q, 1, Len(p)) = p

\* p is to the left of q: they part at some step, p into A and q into B
LeftOf(p, q) ==
    \E k \in 1..Len(p) :
        /\ k <= Len(q)
        /\ SubSeq(p, 1, k - 1) = SubSeq(q, 1, k - 1)
        /\ p[k] = "A"
        /\ q[k] = "B"

\* the tokens successive Next calls return, up to the first end-of-input or error
RECURSIVE lexFrom(_, _)
lexFrom(l, toks) ==
    LET nx == Next(l)
    IN  IF nx.tok.typ \in {typeEOF, typeError} THEN Append(toks, nx.tok)
        ELSE lexFrom(nx.lex, Append(toks, nx.tok))

lex(s) == lexFrom(newLexer(s), <<>>)

NotSpace(t) == t.typ # typeSpace

\* the tokens of a rule string without its white space
Words(s) == SelectSeq(lex(s), NotSpace)

NotSpaceChar(c) == ~IsSpace(c)

\* the rule string with every white space character removed
StripSpace(s) == SelectSeq(s, NotSpaceChar)

HasQuote(s) == \E i \in 1..Len(s) : s[i] \in {"'", "\""}

\* the texts of the tokens at the odd places from the third on
RECURSIVE ParamTexts(_, _)
ParamTexts(ts, i) ==
    IF i >= Len(ts) THEN <<>> ELSE <<ts[i].val>> \o ParamTexts(ts, i + 2)

\* name ":" p ("," p)* and nothing else, each p a token of one of the types in `ok`
IsCall(s, ok) ==
    /\ Len(lex(s)) >= 2
    /\ lex(s)[2].typ = typeColon
    /\ Len(Words(s)) >= 4
    /\ Len(Words(s)) % 2 = 0
    /\ Words(s)[1].typ = typeFunction
    /\ Words(s)[1].val \in DOMAIN ParserRules
    /\ Words(s)[Len(Words(s))].typ = typeEOF
    /\ \A i \in 3..(Len(Words(s)) - 1) :
          IF i % 2 = 1 THEN Words(s)[i].typ \in ok ELSE Words(s)[i].typ = typeComma

\* name ":" then literals and commas in turn up to a place where a literal is
\* due and a colon, a comma or the end of the input stands
HasBadParams(s) ==
    /\ Len(lex(s)) >= 2
    /\ lex(s)[1].typ = typeFunction
    /\ lex(s)[2].typ = typeColon
    /\ \E k \in 3..Len(Words(s)) :
          /\ k % 2 = 1
          /\ Words(s)[k].typ \in {typeColon, typeComma, typeEOF}
          /\ \A i \in 3..(k - 1) :
                IF i % 2 = 1 THEN Words(s)[i].typ \in {typeBool, typeNumber, typeString,
                                                       typeFunction}
                ELSE Words(s)[i].typ = typeComma

\* the depth of open parentheses left after the characters of s from place i on
RECURSIVE DepthFrom(_, _, _)
DepthFrom(s, i, depth) ==
    IF i > Len(s) THEN depth
    ELSE IF s[i] = "(" THEN DepthFrom(s, i + 1, depth + 1)
    ELSE IF s[i] = ")" /\ depth > 0 THEN DepthFrom(s, i + 1, depth - 1)
    ELSE DepthFrom(s, i + 1, depth)

\* some open parenthesis of s has no close
HasUnclosedParen(s) == DepthFrom(s, 1, 0) > 0

\* an And/Or whose next token, white space aside, ends the input or closes a group
HasDanglingOperator(s) ==
    \E i \in 1..(Len(Words(s)) - 1) :
        /\ Words(s)[i].typ \in {typeAnd, typeOr}
        /\ Words(s)[i + 1].typ \in {typeEOF, typeCloseParen}

\* the 0-based place of the close-paren matching the open-paren at 0-based `open`,
\* or -1 without one
RECURSIVE CloseFrom(_, _, _)
CloseFrom(s, i, depth) ==
    IF i > Len(s) THEN -1
    ELSE IF s[i] = "(" THEN CloseFrom(s, i + 1, depth + 1)
    ELSE IF s[i] = ")" THEN (IF depth = 1 THEN i - 1 ELSE CloseFrom(s, i + 1, depth - 1))
    ELSE CloseFrom(s, i + 1, depth)

MatchingClose(s, open) == CloseFrom(s, open + 2, 1)

----------------------------------------------------------------------------
(* Properties.                                                             *)

\* what execute returns for the operator node n, from its operands' outcomes:
\* a standing for the outcome of n.A, b for that of n.B evaluated after it
LeftOutcome(n) == execute(n.A, <<"A">>, fails, NoCalls)

RightOutcome(n) == execute(n.B, <<"B">>, fails, LeftOutcome(n).st)

NodeOutcome(n) == execute(n, <<>>, fails, NoCalls)

\* C1: for every And node with both operands and every assignment of outcomes to
\* the rule functions, execute returns the left operand's failure unchanged when
\* the left operand fails, and otherwise exactly the right operand's outcome
C1_AndReturns ==
    /\ \A x \in NodesAt(tree, <<>>) :
          x.node.Type = typeAnd =>
              /\ ~NodeOutcome(x.node).panic
              /\ NodeOutcome(x.node).err =
                    IF LeftOutcome(x.node).err # NilErr
                    THEN LeftOutcome(x.node).err
                    ELSE RightOutcome(x.node).err
    /\ (pc = "done" /\ tree.Type = typeAnd) =>
          result = [err |-> IF LeftOutcome(tree).err # NilErr
                            THEN LeftOutcome(tree).err
                            ELSE RightOutcome(tree).err,
                    panic |-> FALSE]

\* an And whose left operand failed was evaluated, and returned that failure
C1_Witness ==
    /\ pc = "done"
    /\ tree.Type = typeAnd
    /\ tree.A.Type = typeOr
    /\ LeftOutcome(tree).err # NilErr
    /\ result.err = LeftOutcome(tree).err

\* C2: for every Or node with both operands, execute returns success when the left
\* operand succeeds and otherwise exactly the right operand's outcome; when both
\* fail the failure returned is the right operand's, not the left operand's
C2_OrReturns ==
    /\ \A x \in NodesAt(tree, <<>>) :
          x.node.Type = typeOr =>
              /\ ~NodeOutcome(x.node).panic
              /\ LeftOutcome(x.node).err = NilErr => NodeOutcome(x.node).err = NilErr
              /\ LeftOutcome(x.node).err # NilErr =>
                    /\ NodeOutcome(x.node).err = RightOutcome(x.node).err
                    /\ NodeOutcome(x.node).err # LeftOutcome(x.node).err
    /\ (pc = "done" /\ tree.Type = typeOr) =>
          result = [err |-> IF LeftOutcome(tree).err = NilErr
                            THEN NilErr
                            ELSE RightOutcome(tree).err,
                    panic |-> FALSE]

\* `f | f` was evaluated and returned the failure of the second call of f
C2_Witness ==
    /\ pc = "done"
    /\ tree.Type = typeOr
    /\ tree.A = FunctionNode(Name_f, Name_f, <<>>)
    /\ tree.B = FunctionNode(Name_f, Name_f, <<>>)
    /\ Name_f \in fails
    /\ result.err = [rule |-> Name_f, call |-> 2]

\* C3: during one execute the rule functions are invoked in strict left-to-right
\* depth-first order, each leaf at most once, and no leaf inside the right operand
\* of an Or whose left operand succeeded or of an And whose left operand failed
C3_InvocationOrder ==
    pc = "done" =>
        /\ \A i \in 1..Len(calls) :
              \E x \in NodesAt(tree, <<>>) :
                  /\ x.path = calls[i].path
                  /\ x.node.Type = typeFunction
                  /\ x.node.rule = calls[i].rule
        /\ \A i \in 1..Len(calls) : \A j \in (i + 1)..Len(calls) :
              LeftOf(calls[i].path, calls[j].path)
        /\ \A x \in NodesAt(tree, <<>>) :
              (\/ x.node.Type = typeOr /\ LeftOutcome(x.node).err = NilErr
               \/ x.node.Type = typeAnd /\ LeftOutcome(x.node).err # NilErr) =>
                  \A i \in 1..Len(calls) : ~IsPrefix(Append(x.path, "B"), calls[i].path)

\* `t | f` was evaluated with t succeeding: t was invoked and f never was
C3_Witness ==
    /\ pc = "done"
    /\ tree.Type = typeOr
    /\ tree.A = FunctionNode(Name_t, Name_t, <<>>)
    /\ tree.B = FunctionNode(Name_f, Name_f, <<>>)
    /\ Name_t \notin fails
    /\ calls = <<[path |-> <<"A">>, rule |-> Name_t, params |-> <<>>]>>

\* C4: the empty or white-space-only rule string parses to an absent tree with no
\* error, and evaluating the absent tree succeeds: no failure and no crash
C4_EmptyRuleSucceeds ==
    (pc \in {"parsed", "done"} /\ StripSpace(input) = <<>>) =>
        /\ tree = NoNode
        /\ perr = NoError
        /\ pc = "done" => result = [err |-> NilErr, panic |-> FALSE]

\* C5: the recursive parse of a group ends at the close-paren matching the group's
\* open-paren: white space aside, it consumes nothing of the rule string after
\* that close-paren
C5_GroupEndsAtCloseParen ==
    (pc \in {"parsed", "done"} /\ perr = NoError /\ ~HasQuote(input)) =>
        \A i \in 1..Len(groups) :
            /\ MatchingClose(input, groups[i].open) >= 0
            /\ groups[i].pos > MatchingClose(input, groups[i].open)
            /\ \A k \in (MatchingClose(input, groups[i].open) + 2)..groups[i].pos :
                  IsSpace(input[k])

\* C6: two rule strings that differ only in white space between the same tokens
\* parse to the same tree, or both to an error
C6_WhitespaceIrrelevant ==
    (pc \in {"parsed", "done"} /\ Words(StripSpace(input)) = Words(input)
                               /\ Words(input)[Len(Words(input))].typ = typeEOF) =>
        \/ perr # NoError /\ parse(StripSpace(input), ParserRules).err # NoError
        \/ /\ perr = NoError
           /\ parse(StripSpace(input), ParserRules).err = NoError
           /\ parse(StripSpace(input), ParserRules).n = tree

\* C7: a rule name, a colon and a comma-separated list of literals parse to a
\* Function leaf holding the literals' texts in order, and executing the leaf hands
\* exactly that list to the rule function
C7_LiteralParams ==
    (pc \in {"parsed", "done"} /\ IsCall(input, {typeBool, typeNumber, typeString})) =>
        /\ perr = NoError
        /\ tree = FunctionNode(ParserRules[Words(input)[1].val], Words(input)[1].val,
                               ParamTexts(Words(input), 3))
        /\ pc = "done" =>
              /\ ps.Params = ParamTexts(Words(input), 3)
              /\ calls = <<[path |-> <<>>, rule |-> ParserRules[Words(input)[1].val],
                            params |-> ParamTexts(Words(input), 3)]>>

\* C8: in parameter position a bare function-name token is accepted and stored as
\* a literal parameter
C8_BareWordParams ==
    (/\ pc \in {"parsed", "done"}
     /\ IsCall(input, {typeBool, typeNumber, typeString, typeFunction})
     /\ \E i \in 3..Len(Words(input)) : Words(input)[i].typ = typeFunction) =>
        /\ perr = NoError
        /\ tree = FunctionNode(ParserRules[Words(input)[1].val], Words(input)[1].val,
                               ParamTexts(Words(input), 3))

\* C9: in parameter mode a colon, a comma or the end of the input where a literal
\* is expected is a parse error
C9_BadParamsRejected ==
    (pc \in {"parsed", "done"} /\ HasBadParams(input)) => perr # NoError

\* C10: a rule string with an open parenthesis that is never closed, or with an
\* And/Or that lacks its right operand at the end of the input or before a
\* close-paren, is rejected with an error
C10_UnbalancedRejected ==
    (/\ pc \in {"parsed", "done"}
     /\ ~HasQuote(input)
     /\ HasUnclosedParen(input) \/ HasDanglingOperator(input)) =>
        perr # NoError

----------------------------------------------------------------------------
(* Properties of the parser's error handling.                              *)

\* some close-paren of s from place i on stands at depth zero
RECURSIVE UnmatchedFrom(_, _, _)
UnmatchedFrom(s, i, depth) ==
    IF i > Len(s) THEN FALSE
    ELSE IF s[i] = "(" THEN UnmatchedFrom(s, i + 1, depth + 1)
    ELSE IF s[i] = ")" THEN (depth = 0 \/ UnmatchedFrom(s, i + 1, depth - 1))
    ELSE UnmatchedFrom(s, i + 1, depth)

HasUnmatchedClose(s) == UnmatchedFrom(s, 1, 0)

\* C11: a rule string with a close-paren that has no matching open-paren is
\* rejected, wherever the close-paren stands
C11_UnmatchedCloseRejected ==
    (pc \in {"parsed", "done"} /\ ~HasQuote(input) /\ HasUnmatchedClose(input)) =>
        perr # NoError

\* C12: a rule string whose tokenization holds an error token never parses
C12_ErrorTokenRejected ==
    (pc \in {"parsed", "done"} /\ lex(input)[Len(lex(input))].typ = typeError) =>
        perr # NoError

HasToken(s, typ) == \E i \in 1..Len(lex(s)) : lex(s)[i].typ = typ

\* a colon or comma that no parameter list can hold: a comma in a rule string
\* without colon, or a colon or comma at the start or right after an operator or
\* an open-paren
HasStrayColonOrComma(s) ==
    \/ HasToken(s, typeComma) /\ ~HasToken(s, typeColon)
    \/ \E i \in 1..Len(Words(s)) :
          /\ Words(s)[i].typ \in {typeColon, typeComma}
          /\ i = 1 \/ Words(s)[i - 1].typ \in {typeAnd, typeOr, typeOpenParen}

\* C13: a colon or comma outside a function's parameter list is a parse error
C13_StrayColonCommaRejected ==
    (pc \in {"parsed", "done"} /\ HasStrayColonOrComma(input)) => perr # NoError

\* a lexer over s standing at 0-based place p with `depth` open parentheses
lexerAt(s, p, depth) == [newLexer(s) EXCEPT !.start = p, !.pos = p, !.parenStack = depth]

\* partial trees that are complete operands: a leaf, an And and an Or with both operands
CompleteOperands ==
    { FunctionNode(Name_t, Name_t, <<>>),
      [OperatorNode(typeAnd, FunctionNode(Name_t, Name_t, <<>>))
          EXCEPT !.B = FunctionNode(Name_f, Name_f, <<>>)],
      [OperatorNode(typeOr, FunctionNode(Name_t, Name_t, <<>>))
          EXCEPT !.B = FunctionNode(Name_f, Name_f, <<>>)] }

C14Examples ==
    { <<"t", " ", "f">>,
      <<"t", " ", "&", " ", "(", "f", " ", "|", " ", "f", " ", "&", " ", "t", ")", " ", "t">>,
      <<"t", " ", "&", " ", "(", "f", " ", "|", " ", "f", " ", "t", ")", " ", "&", " ",
        "f">> }

\* the switch of parseBools rejects the token nx if it is a function name
RejectsFunction(nx, current) ==
    nx.tok.typ = typeFunction => parseToken(nx, current, ParserRules, <<>>).err # NoError

\* the first two tokens of w, white space aside, have the types first and second
StartsWith(w, first, second) ==
    Len(w) >= 2 /\ w[1].typ = first /\ w[2].typ = second

\* C14: a function-name token read by parseBools while the partial tree is a
\* complete operand is a parse error, wherever in a rule string the lexer stands;
\* a rule string that starts with two rule names is rejected, and so are `t f`,
\* `t & (f | f & t) t` and `t & (f | f t) & f`
C14_UnexpectedFunction ==
    pc \in {"parsed", "done"} =>
        /\ \A p \in 0..(Len(input) - 1) :
              LET nx == Next(lexerAt(input, p, 0))
              IN  \A current \in CompleteOperands : RejectsFunction(nx, current)
        /\ StartsWith(Words(input), typeFunction, typeFunction) => perr # NoError
        /\ input \in C14Examples => perr # NoError

\* `t f` was parsed and rejected at the second rule name
C14_Witness ==
    /\ pc = "parsed"
    /\ input = <<"t", " ", "f">>
    /\ perr = badAt(<<"f">>, lexerAt(input, 2, 0))

C15Examples ==
    { <<"t", " ", "(", "f", " ", "|", " ", "t", " ", "&", " ", "f", ")">>,
      <<"t", "(", "f", ")">>,
      <<"t", "(", ")">>,
      <<"(", "t", " ", "|", " ", "f", ")", " ", "(", "g", ")">> }

\* C15: an open-paren that follows a complete operand is a parse error whatever
\* follows it: a rule string that starts with a rule name and an open-paren is
\* rejected, and so are `t (f | t & f)`, `t(f)`, `t()` and `(t | f) (g)`
C15_UnexpectedOpenParen ==
    pc \in {"parsed", "done"} =>
        /\ StartsWith(Words(input), typeFunction, typeOpenParen) => perr # NoError
        /\ input \in C15Examples => perr # NoError

\* ierrorf("'%s' is not a valid rule", val)
NotValidRule(val) == <<"'">> \o val \o <<"' is not a valid rule">>

IsUnknown(t) == t.typ = typeFunction /\ t.val \notin DOMAIN ParserRules

\* a name absent from the registry stands where a rule is due: at the start, or
\* right after an operator or an open-paren
UsesUnknownRule(s) ==
    \E i \in 1..Len(Words(s)) :
        /\ IsUnknown(Words(s)[i])
        /\ i = 1 \/ Words(s)[i - 1].typ \in {typeAnd, typeOr, typeOpenParen}

\* an unknown name alone, or an unknown name with a list of literals
IsUnknownCall(s) ==
    /\ IsUnknown(Words(s)[1])
    /\ \/ Len(Words(s)) = 2 /\ Words(s)[2].typ = typeEOF
       \/ /\ lex(s)[2].typ = typeColon
          /\ Len(Words(s)) >= 4
          /\ Len(Words(s)) % 2 = 0
          /\ Words(s)[Len(Words(s))].typ = typeEOF
          /\ \A i \in 3..(Len(Words(s)) - 1) :
                IF i % 2 = 1 THEN Words(s)[i].typ \in {typeBool, typeNumber, typeString}
                ELSE Words(s)[i].typ = typeComma

\* C16: a rule string that uses a name absent from the registry as a rule is
\* rejected, and a call of such a name, with or without a parameter list, is
\* rejected with the "not a valid rule" error
C16_UnknownRuleRejected ==
    pc \in {"parsed", "done"} =>
        /\ UsesUnknownRule(input) => perr # NoError
        /\ IsUnknownCall(input) => perr = NotValidRule(Words(input)[1].val)

\* every And/Or node of the tree n has both operands
WellFormed(n) ==
    \A x \in NodesAt(n, <<>>) :
        x.node.Type \in {typeAnd, typeOr} => ~IsNil(x.node.A) /\ ~IsNil(x.node.B)

\* C17: a tree parse returns without error is absent, a Function leaf, or a tree
\* whose And/Or nodes all have both operands
C17_NoMissingOperand ==
    (pc \in {"parsed", "done"} /\ perr = NoError) =>
        /\ tree.Type \in {"nil", typeFunction, typeAnd, typeOr}
        /\ WellFormed(tree)

\* `& t f`, with its leading operator, was parsed to the full tree And(t, f)
C17_Witness ==
    /\ pc = "parsed"
    /\ input = <<"&", " ", "t", " ", "f">>
    /\ perr = NoError
    /\ tree = [OperatorNode(typeAnd, FunctionNode(Name_t, Name_t, <<>>))
                  EXCEPT !.B = FunctionNode(Name_f, Name_f, <<>>)]

----------------------------------------------------------------------------
(* Properties of the evaluator's context and of the lexer.                 *)

\* C18: each invocation of a rule function finds in the context exactly the
\* parameter list of its own Function node, whatever the context held before and
\* whatever a sibling invoked earlier was given; after execute the context holds
\* the list of the last rule invoked
C18_ParamsPerCall ==
    pc = "done" =>
        /\ \A i \in 1..Len(calls) :
              \E x \in NodesAt(tree, <<>>) :
                  /\ x.path = calls[i].path
                  /\ x.node.Type = typeFunction
                  /\ calls[i].params = x.node.params
        /\ Len(calls) > 0 => ps.Params = calls[Len(calls)].params

\* t with the parameter 1 and then t without parameters were invoked: the second
\* call found an empty list
C18_Witness ==
    /\ pc = "done"
    /\ tree = [OperatorNode(typeAnd, FunctionNode(Name_t, Name_t, <<<<"1">>>>))
                  EXCEPT !.B = FunctionNode(Name_t, Name_t, <<>>)]
    /\ calls = << [path |-> <<"A">>, rule |-> Name_t, params |-> <<<<"1">>>>],
                  [path |-> <<"B">>, rule |-> Name_t, params |-> <<>>] >>
    /\ ps.Params = <<>>

\* a token with the places of the buffer it spans: l.start and l.pos after Next
span(nx) ==
    [typ |-> nx.tok.typ, val |-> nx.tok.val, start |-> nx.lex.start, pos |-> nx.lex.pos]

\* the spans of the tokens successive Next calls return, up to the first
\* end-of-input or error
RECURSIVE spansFrom(_, _)
spansFrom(l, acc) ==
    IF Next(l).tok.typ \in {typeEOF, typeError} THEN Append(acc, span(Next(l)))
    ELSE spansFrom(Next(l).lex, Append(acc, span(Next(l))))

Spans(s) == spansFrom(newLexer(s), <<>>)

\* the texts of the tokens toks from the i-th on, concatenated
RECURSIVE TextFrom(_, _)
TextFrom(toks, i) == IF i > Len(toks) THEN <<>> ELSE toks[i].val \o TextFrom(toks, i + 1)

LexerExample ==
    <<"f", "u", "n", "c", ":", " ", "'", "a", "'", ",", " ", "2", " ", "&", " ", "x">>

LexerExampleTokens ==
    << [typ |-> typeFunction, val |-> <<"f", "u", "n", "c">>],
       [typ |-> typeColon, val |-> <<":">>],
       [typ |-> typeSpace, val |-> <<" ">>],
       [typ |-> typeString, val |-> <<"'", "a", "'">>],
       [typ |-> typeComma, val |-> <<",">>],
       [typ |-> typeSpace, val |-> <<" ">>],
       [typ |-> typeNumber, val |-> <<"2">>],
       [typ |-> typeSpace, val |-> <<" ">>],
       [typ |-> typeAnd, val |-> <<"&">>],
       [typ |-> typeSpace, val |-> <<" ">>],
       [typ |-> typeFunction, val |-> <<"x">>],
       [typ |-> typeEOF, val |-> <<>>] >>

\* the spans sp tile the rule string s, each holding the slice it spans, with no
\* two white space tokens in a row and an empty end-of-input token at the end
TilesInput(sp, s) ==
    /\ \A i \in 1..Len(sp) :
          /\ sp[i].val = SubSeq(s, sp[i].start + 1, sp[i].pos)
          /\ sp[i].start = IF i = 1 THEN 0 ELSE sp[i - 1].pos
          /\ i > 1 => ~(sp[i].typ = typeSpace /\ sp[i - 1].typ = typeSpace)
    /\ sp[Len(sp)].pos = Len(s)
    /\ sp[Len(sp)].val = <<>>
    /\ TextFrom(sp, 1) = s

EndsInEOF(sp) == sp[Len(sp)].typ = typeEOF

RoundTrips(sp, s) == EndsInEOF(sp) => TilesInput(sp, s)

\* C19: when the lexer returns no error token on a rule string, each token's
\* text is the slice of the rule string the token spans, the tokens follow one
\* another without gap from the start to the end, the end-of-input token is
\* empty, the texts concatenated give the rule string back, a run of white
\* space is one token, `func: 'a', 2 & x` gives the twelve tokens listed, and the
\* rule string of TestLexer gives the tokens that test expects
C19_LexRoundTrip ==
    pc \in {"parsed", "done"} =>
        /\ RoundTrips(Spans(input), input)
        /\ input = LexerExample => lex(input) = LexerExampleTokens
        /\ input = TestLexerInput => lex(input) = TestLexerTokens

\* the example was tokenized to its end: twelve tokens, the last the end-of-input
C19_Witness ==
    /\ pc = "parsed"
    /\ input = LexerExample
    /\ Len(lex(input)) = 12
    /\ lex(input)[12].typ = typeEOF
    /\ lex(input)[3] = [typ |-> typeSpace, val |-> <<" ">>]

\* the lexers a tokenization of s goes through: the one before each Next
RECURSIVE statesFrom(_, _)
statesFrom(l, acc) ==
    IF Next(l).tok.typ \in {typeEOF, typeError} THEN Append(acc, l)
    ELSE statesFrom(Next(l).lex, Append(acc, l))

LexerStates(s) == statesFrom(newLexer(s), <<>>)

\* Peak on the lexer l rewinds to l, and the Next after it returns the token pk.tok
Rewinds(l, pk) ==
    /\ pk.lex.pos = l.pos
    /\ pk.lex.parenStack = l.parenStack
    /\ Next(pk.lex).tok = pk.tok

AllRewind(ls) == \A i \in 1..Len(ls) : Rewinds(ls[i], Peak(ls[i]))

\* C20: Next followed by Backup, that is Peak, leaves the scan position and the
\* parenthesis depth as they were, and the Next after it returns the token peeked
C20_PeakRewinds ==
    pc \in {"parsed", "done"} => AllRewind(LexerStates(input))

----------------------------------------------------------------------------
(* Properties of a lexer driven call by call.                              *)

\* the parentheses open in the part of the buffer before the scan position
OpenBefore(l) == DepthFrom(SubSeq(l.buffer, 1, l.pos), 1, 0)

\* C21: in every lexer state reached by Next, Peak and Backup calls the depth is
\* not negative and is the number of parentheses open before the scan position;
\* on `)` Next returns a close-paren above depth zero and an error at depth zero;
\* at the end of the input it returns end-of-input at depth zero and an error
\* above
C21_ParenDepth ==
    /\ lx.parenStack >= 0
    /\ lx.parenStack = OpenBefore(lx)
    /\ (hasNext(lx) /\ cur(lx) = ")") =>
          Next(lx).tok.typ = IF OpenBefore(lx) > 0 THEN typeCloseParen ELSE typeError
    /\ ~hasNext(lx) =>
          Next(lx).tok.typ = IF OpenBefore(lx) = 0 THEN typeEOF ELSE typeError

----------------------------------------------------------------------------
(* Numbers.                                                                *)

\* the numeric scan r started at position p of s: a number it accepts is not
\* followed by an identifier character, and one it refuses leaves the position at p
CleanNumber(s, p, r) ==
    /\ r.ok => (r.lex.pos > p /\ ~isAlphaNumeric(peak(r.lex)))
    /\ ~r.ok => r.lex.pos = p

\* no number token of toks is followed by a token that starts with an identifier
\* character
NoNumberBeforeIdentifier(toks) ==
    \A i \in 1..(Len(toks) - 1) :
        toks[i].typ = typeNumber =>
            (toks[i + 1].typ = typeError \/ toks[i + 1].val = <<>>
                \/ ~isAlphaNumeric(toks[i + 1].val[1]))

\* C22: a numeric scan that an identifier character follows yields no number
\* token, whatever prefix it covered, and resets the scan position to where it
\* began; `3abc` is the single function token `3abc`
C22_NumberNotBeforeIdentifier ==
    /\ pc = "parsed" =>
          /\ \A p \in 0..Len(input) : CleanNumber(input, p, acceptNumber(lexerAt(input, p, 0)))
          /\ NoNumberBeforeIdentifier(lex(input))
    /\ (pc = "parsed" /\ input = NumberExample) =>
          lex(input) = << [typ |-> typeFunction, val |-> NumberExample],
                          [typ |-> typeEOF, val |-> <<>>] >>

\* a digit run into a letter was scanned and came out as one function token
C22_Witness ==
    /\ pc = "parsed"
    /\ input = NumberExample
    /\ ~acceptNumber(lexerAt(input, 0, 0)).ok
    /\ lex(input)[1].typ = typeFunction

----------------------------------------------------------------------------
(* Properties of Validate and CheckSyntax.  The annotated fields of a      *)
(* record are listed in the order of the traversal, and each is parsed and *)
(* evaluated on its own, without the parser's cache.                       *)

RECURSIVE annotatedIn(_, _)
RECURSIVE annotatedFields(_, _, _)
RECURSIVE annotatedElems(_, _, _)

\* the fields of a value that carry a tag under the key: struct fields in
\* declaration order, each before what is nested under it, slice elements by index
annotatedIn(value, key) ==
    IF value.kind = "struct" THEN annotatedFields(value.fields, 1, key)
    ELSE IF value.kind = "slice" THEN annotatedElems(value.elems, 1, key)
    ELSE <<>>

annotatedFields(fields, i, key) ==
    IF i > Len(fields) THEN <<>>
    ELSE (IF key \in DOMAIN fields[i].tag THEN <<fields[i]>> ELSE <<>>)
            \o annotatedIn(fields[i].value, key) \o annotatedFields(fields, i + 1, key)

annotatedElems(elems, i, key) ==
    IF i > Len(elems) THEN <<>>
    ELSE annotatedIn(elems[i], key) \o annotatedElems(elems, i + 1, key)

\* what became of a field whose rule string parsed to p and evaluated to r
outcomeOf(field, p, r) ==
    IF p.err # NoError THEN [kind |-> "syntax", entry |-> FieldError(p.err), value |-> <<>>]
    ELSE IF r.panic THEN [kind |-> "panic", entry |-> NilError, value |-> r.value]
    ELSE IF r.err # NilErr
    THEN [kind |-> "fails", entry |-> FieldError(ruleMessage(r.err.rule, field.name)),
          value |-> <<>>]
    ELSE [kind |-> "passes", entry |-> NilError, value |-> <<>>]

\* the tree of a rule string, evaluated on a field
evaluated(field, p) ==
    IF p.err # NoError THEN [err |-> NilErr, panic |-> FALSE]
    ELSE execute(p.n, <<>>, failingOn(field.value), [Params |-> <<>>, calls |-> <<>>])

fieldOutcome(vd, field, p) == outcomeOf(field, p, evaluated(field, p))

\* the outcome of each annotated field of the record, in traversal order
outcomesOf(vd, fields) ==
    [i \in 1..Len(fields) |-> fieldOutcome(vd, fields[i], parse(fields[i].tag[vd.tag], vd.rules))]

Outcomes(vd, rec) == outcomesOf(vd, annotatedIn(rec, vd.tag))

\* the entries of the outcomes of the given kinds, in order
RECURSIVE entriesOf(_, _, _)
entriesOf(os, i, kinds) ==
    IF i > Len(os) THEN <<>>
    ELSE (IF os[i].kind \in kinds THEN <<os[i].entry>> ELSE <<>>) \o entriesOf(os, i + 1, kinds)

\* some rule function signalled a programmer error
RulePanics(os) == \E i \in 1..Len(os) : os[i].kind = "panic" /\ os[i].value = EQPanic

\* some evaluation panicked
Panics(os) == \E i \in 1..Len(os) : os[i].kind = "panic"

\* the value of the first panic
FirstPanic(os) == os[CHOOSE i \in 1..Len(os) : os[i].kind = "panic" /\
                        \A j \in 1..(i - 1) : os[j].kind # "panic"].value

\* Validate returned nil when no field failed, else one entry per failing field
ReportsEvery(o, os) ==
    /\ ~o.panic
    /\ o.err = IF entriesOf(os, 1, {"syntax", "fails"}) = <<>> THEN NilError
               ELSE FieldErrors(entriesOf(os, 1, {"syntax", "fails"}))

\* C23: Validate returns nil iff no annotated field fails, and otherwise the list
\* of one entry per failing annotated field in traversal order; three fields
\* tagged with an always-failing rule give ["fail","fail","fail"]
C23_ValidateReportsEveryFailure ==
    /\ (out.call = "Validate" /\ ~RulePanics(Outcomes(v, record))) =>
          ReportsEvery(out, Outcomes(v, record))
    /\ (out.call = "Validate" /\ record = ThreeFails
            /\ v = New(<<[Tag |-> "", Rules |-> TestRules]>>)) =>
          out.err = FieldErrors(<<FieldError(<<"fail">>), FieldError(<<"fail">>),
                                  FieldError(<<"fail">>)>>)

\* the default rules with the caller's laid over them
MergedRules(caller) ==
    [r \in DOMAIN DefaultRules \cup DOMAIN caller |->
        IF r \in DOMAIN caller THEN caller[r] ELSE DefaultRules[r]]

\* C24: the registry of a validator built with caller-supplied rules is the
\* default rules merged with the caller's, the caller's winning on a duplicate
\* name, so that `required` still parses
C24_RulesMerged ==
    \A cfg \in Configs :
        (cfg # <<>> /\ DOMAIN cfg[1].Rules # {} /\ v = New(cfg)) =>
            /\ v.rules = MergedRules(cfg[1].Rules)
            /\ parse(Name_required, v.rules).err = NoError

\* the entries of a result are those of the outcomes of the given kinds
ReportsKinds(o, os, kinds) == ~o.panic /\ o.err.errs = entriesOf(os, 1, kinds)

\* C25: the result of CheckSyntax holds an entry for each annotated field whose
\* rule string fails to parse and none for a field whose rules return a
\* validation failure; Validate on the same record reports both; the struct
\* of the test gives ["bad ':' at 11"]
C25_CheckSyntaxOnlySyntaxErrors ==
    /\ (out.call = "CheckSyntax" /\ ~RulePanics(Outcomes(v, record))) =>
          ReportsKinds(out, Outcomes(v, record), {"syntax"})
    /\ (out.call = "Validate" /\ ~RulePanics(Outcomes(v, record))) =>
          ReportsKinds(out, Outcomes(v, record), {"syntax", "fails"})
    /\ (out.call = "CheckSyntax" /\ record = BadSyntaxRecord /\ v = New(<<>>)) =>
          out.err = FieldErrors(<<FieldError(<<"bad '", ":", "' at ", "1", "1">>)>>)

\* a call that met a panic: CheckSyntax returned it as an error, Validate let it
\* through and returned nothing
HandlesPanic(o, value) ==
    /\ o.call = "CheckSyntax" => (~o.panic /\ o.err = PlainError(value))
    /\ o.call = "Validate" => (o.panic /\ o.value = value /\ o.err = NilError)

\* C26: CheckSyntax never panics: when an evaluation panics during the dry-run
\* it returns an error whose message is the panic value; Validate on the same
\* record aborts with the panic and collects nothing
C26_CheckSyntaxRecovers ==
    /\ out.call = "CheckSyntax" => ~out.panic
    /\ (out.call # "none" /\ Panics(Outcomes(v, record))) =>
          HandlesPanic(out, FirstPanic(Outcomes(v, record)))

\* the dry-run of a record ran into EQ without parameters and CheckSyntax
\* returned the panic value as its error
C26_Witness ==
    /\ out.call = "CheckSyntax"
    /\ RulePanics(Outcomes(v, record))
    /\ out.err = PlainError(EQPanic)

\* a tag without the rule strings stored under other keys than key
StripTag(tag, key) == [k \in DOMAIN tag \cap {"json", key} |-> tag[k]]

\* a value without the rule strings stored under other keys than key
RECURSIVE StripOther(_, _)
StripOther(value, key) ==
    [kind |-> value.kind, zero |-> value.zero,
     fields |-> [i \in 1..Len(value.fields) |->
                    StructField(value.fields[i].name, StripTag(value.fields[i].tag, key),
                                StripOther(value.fields[i].value, key))],
     elems |-> [i \in 1..Len(value.elems) |-> StripOther(value.elems[i], key)]]

\* the first call on a new parser returned o and left the parser p, as the
\* traversal r does
FirstCallIs(o, p, r) ==
    /\ o = IF o.call = "Validate" THEN validateReturn(r, 1) ELSE checkSyntaxReturn(r, 1)
    /\ p = r.st.parser

\* the names and the rule strings of the annotated fields
NamesOf(fields) == {fields[i].name : i \in 1..Len(fields)}

TextsOf(fields, key) == {fields[i].tag[key] : i \in 1..Len(fields)}

\* the rule invocations and the tokenizer runs are those of the fields given
OnlyFields(o, p, fields, key) ==
    /\ \A i \in 1..Len(o.invoked) : o.invoked[i].field \in NamesOf(fields)
    /\ \A i \in 1..Len(p.lexed) : p.lexed[i] \in TextsOf(fields, key)
    /\ fields = <<>> => (o.err.errs = <<>> /\ ~o.panic)

\* C27: Validate and CheckSyntax evaluate only the rule strings stored under the
\* configured tag key: a call returns what it returns on the record without the
\* rule strings under other keys, and a field without a tag under the key
\* contributes no parse, no rule invocation and no error
C27_OnlyConfiguredTag ==
    /\ out.n = 1 =>
          FirstCallIs(out, parser,
                      traverse(v, out.call = "CheckSyntax", StripOther(record, v.tag),
                               NoPanic(newParser)))
    /\ out.call # "none" => OnlyFields(out, parser, annotatedIn(record, v.tag), v.tag)

\* a record whose only rule string is under another key than the validator's
\* was validated: nothing was parsed, no rule invoked, and nil returned
C27_Witness ==
    /\ out.call = "Validate"
    /\ v.tag = DefaultTag
    /\ record.kind = "struct"
    /\ \E i \in 1..Len(record.fields) : "test" \in DOMAIN record.fields[i].tag
    /\ annotatedIn(record, v.tag) = <<>>
    /\ out.err = NilError
    /\ parser.lexed = <<>>
    /\ out.invoked = <<>>

\* the number of times x occurs in seq
Count(seq, x) == Cardinality({i \in 1..Len(seq) : seq[i] = x})

\* C28: parsing a rule string that was parsed successfully before returns the
\* cached tree without running the tokenizer: the tokenizer ran exactly once on
\* every cached rule string, whatever number of parse calls were made
C28_CachedNotRelexed ==
    \A e \in parser.cache :
        /\ Count(parser.lexed, e.text) = 1
        /\ parserParse(parser, e.text, v.rules) = [n |-> e.n, err |-> NoError, parser |-> parser]

\* two calls were made on a record with two fields of the same rule string,
\* which is cached and was tokenized once
C28_Witness ==
    /\ out.n = 2
    /\ record.kind = "struct"
    /\ Len(record.fields) = 2
    /\ \E e \in parser.cache :
          /\ e.text = Name_f
          /\ \A i \in 1..2 : v.tag \in DOMAIN record.fields[i].tag
                              /\ record.fields[i].tag[v.tag] = e.text
          /\ Count(parser.lexed, e.text) = 1

----------------------------------------------------------------------------
(* Properties of the parse cache under concurrent validations.             *)

\* the goroutines inside the insertion
Inserting == {t \in Threads : threads[t].pc \in {"insert", "unlock"}}

\* at most one goroutine is inside the insertion, and it holds the lock
InsertionsExclusive ==
    /\ Cardinality(Inserting) <= 1
    /\ \A t \in Inserting : parser.mu = t

\* a rule string has at most one tree in the cache
OneTreeEach == \A d, e \in parser.cache : d.text = e.text => d = e

\* a call that returned a tree returned the one that is cached
ReturnsCached ==
    \A t \in Threads :
        (threads[t].pc \in {"idle", "unlock"} /\ threads[t].text # <<>>
            /\ threads[t].err = NoError) =>
            /\ isCached(parser.cache, threads[t].text)
            /\ threads[t].n = cachedTree(parser.cache, threads[t].text)
            /\ threads[t].n = parse(threads[t].text, v.rules).n

\* C29: under any interleaving of concurrent validations that parse the same
\* rule string, insertions into the cache are mutually exclusive, a rule string
\* has exactly one tree in the cache, every call that returns a tree returns the
\* cached one, and an entry is never evicted or replaced
C29_CacheConsistent ==
    /\ [](InsertionsExclusive /\ OneTreeEach /\ ReturnsCached)
    /\ [][parser.cache \subseteq parser'.cache]_vars

\* two goroutines parsed the same uncached rule string redundantly, and the
\* tree of one of them is the one cached
C29_Witness ==
    /\ Count(parser.lexed, Name_t) = 2
    /\ \E e \in parser.cache : e.text = Name_t /\ e.by = 1
    /\ threads[2].pc = "unlock"
    /\ threads[2].text = Name_t
    /\ threads[2].n = cachedTree(parser.cache, Name_t)

----------------------------------------------------------------------------
(* Properties of the list of errors.                                       *)

\* C30: when an error that exposes sub-errors is added to the list, by Add or as
\* what a rule function returned, the list gains exactly the sub-errors,
\* flattened in order, and not the composite itself: a composite of n leaf
\* errors grows the list by n entries
C30_AddFlattens ==
    [][ /\ es'.list = AddFlat(es.list, <<es'.last>>)
        /\ implementsErrors(es'.last) =>
              Len(es'.list) = Len(es.list) + Len(es'.last.errs) ]_vars

----------------------------------------------------------------------------
(* Properties of the rule XOR.                                             *)

\* the fields of the struct that the parameters name
XorNamed(params) == {i \in 1..3 : \E k \in 1..Len(params) : params[k] = XorNames[i]}

\* every parameter names a field of the struct
XorAllExist(params) == \A k \in 1..Len(params) : \E i \in 1..3 : params[k] = XorNames[i]

\* the parameters name siblings of the field, each once
XorDistinctSiblings(field, params) ==
    /\ \A k \in 1..Len(params) : params[k] # XorNames[field]
    /\ \A j, k \in 1..Len(params) : j # k => params[j] # params[k]

\* how many of the field and the named siblings hold a value
XorSet(field, params) ==
    Cardinality({i \in XorNamed(params) \cup {field} : ~record.fields[i].value.zero})

\* C31: XOR panics exactly when a parameter names no field of the parent; on
\* parameters that name siblings, each once, it returns nil exactly when one
\* of the field and the named siblings is set, and an error when none or more
\* than one is; on the struct of the test the error reads
\* `either 'a', 'b' or 'c' must be set`
C31_XorExactlyOne ==
    out.call = "XOR" =>
        /\ out.panic <=> ~XorAllExist(out.params)
        /\ out.panic =>
              \E k \in 1..Len(out.params) :
                  /\ \A i \in 1..3 : out.params[k] # XorNames[i]
                  /\ out.value = <<"'", ".">> \o out.params[k] \o <<"' is not a valid field">>
        /\ (XorAllExist(out.params) /\ XorDistinctSiblings(out.field, out.params)) =>
              /\ out.err = NilError <=> XorSet(out.field, out.params) = 1
              /\ out.err # NilError => out.err.Type = "error"
        /\ (out.field = 1 /\ out.params = <<XorNames[2], XorNames[3]>>
                /\ XorSet(out.field, out.params) # 1) =>
              ErrorText(out.err) = <<"either ", "'", "a", "'", ", ", "'", "b", "'", " or ",
                                     "'", "c", "'", " must be set">>

\* XOR passed a struct in which only one named sibling is set
C31_Witness ==
    /\ out.call = "XOR"
    /\ out.field = 1
    /\ out.params = <<XorNames[2], XorNames[3]>>
    /\ record = XorRecord(<<TRUE, FALSE, TRUE>>)
    /\ out.err = NilError
    /\ ~out.panic

----------------------------------------------------------------------------
(* Properties of operator chains.                                          *)

\* the function and operator tokens a tree stands for, from left to right
RECURSIVE Flatten(_)
Flatten(n) ==
    IF IsNil(n) THEN <<>>
    ELSE IF n.Type = typeFunction THEN <<[typ |-> typeFunction, val |-> n.Value]>>
    ELSE Flatten(n.A)
            \o <<[typ |-> n.Type, val |-> IF n.Type = typeAnd THEN <<"&">> ELSE <<"|">>]>>
            \o Flatten(n.B)

\* every right operand of the tree is a leaf: the operators nest to the left
RECURSIVE LeftNested(_)
LeftNested(n) ==
    \/ IsNil(n)
    \/ n.Type = typeFunction
    \/ IsOperator(n) /\ n.B.Type = typeFunction /\ LeftNested(n.A)

\* the words are rule names of the registry joined by operators
IsChain(w) ==
    /\ Len(w) >= 2
    /\ Len(w) % 2 = 0
    /\ w[Len(w)].typ = typeEOF
    /\ \A i \in 1..(Len(w) - 1) :
          IF i % 2 = 1 THEN w[i].typ = typeFunction /\ w[i].val \in DOMAIN ParserRules
          ELSE w[i].typ \in {typeAnd, typeOr}

\* white space follows every rule name but the last
Spaced(toks) ==
    \A i \in 1..(Len(toks) - 1) :
        toks[i].typ = typeFunction => toks[i + 1].typ \in {typeSpace, typeEOF}

HasParen(toks) == \E i \in 1..Len(toks) : toks[i].typ \in {typeOpenParen, typeCloseParen}

Leaf(r) == FunctionNode(r, r, <<>>)

Both(typ, a, b) ==
    [Type |-> typ, Value |-> <<>>, rule |-> <<>>, params |-> <<>>, A |-> a, B |-> b]

\* the rule strings of the test `test and / or logic`, with t for pass and f for
\* fail, and whether the test expects them to be valid
ChainTests ==
    { [text |-> <<"f", " ", "|", " ", "t", " ", "|", " ", "f", " ", "&", " ", "t">>,
       valid |-> TRUE],
      [text |-> <<"f", " ", "|", " ", "f", " ", "|", " ", "t", " ", "&", " ", "f">>,
       valid |-> FALSE],
      [text |-> <<"t", " ", "|", " ", "f", " ", "|", " ", "f", " ", "&", " ", "t">>,
       valid |-> TRUE] }

IncompleteOperators ==
    { [Type |-> typ, Value |-> <<>>, rule |-> <<>>, params |-> <<>>, A |-> a, B |-> NoNode] :
        typ \in {typeAnd, typeOr}, a \in {NoNode, Leaf(Name_t)} }

\* the switch of parseBools rejects the And/Or token nx
RejectsOperator(nx, current) ==
    parseToken(nx, current, ParserRules, <<>>).err = badAt(nx.tok.val, nx.lex)

\* the switch of parseBools, given the And/Or token nx, goes on with a new node
\* over the partial tree
AcceptsOperator(nx, current) ==
    parseToken(nx, current, ParserRules, <<>>)
        = parseLoop(nx.lex, Both(nx.tok.typ, current, NoNode), ParserRules, <<>>)

\* two operators follow one another, white space aside
HasDoubleOperator(w) ==
    \E i \in 1..(Len(w) - 1) :
        w[i].typ \in {typeAnd, typeOr} /\ w[i + 1].typ \in {typeAnd, typeOr}

C33Examples ==
    { <<"t", " ", "&", " ", "&", " ", "f">>,
      <<"t", " ", "&", " ", "|", " ", "f">>,
      <<"&", " ", "&", " ", "t">> }

\* C33: an And/Or token read by parseBools while the partial tree is an And/Or
\* that lacks an operand is a parse error, wherever in a rule string the lexer
\* stands, and it is taken when the partial tree is absent, a leaf or a full
\* And/Or; a rule string with two operators in a row and white space after its
\* rule names is rejected, and so are `t & & f`, `t & | f` and `& & t`
C33_DuplicateOperator ==
    pc = "parsed" =>
        /\ \A p \in 0..(Len(input) - 1) :
              LET nx == Next(lexerAt(input, p, 0))
              IN  nx.tok.typ \in {typeAnd, typeOr} =>
                      /\ \A current \in IncompleteOperators : RejectsOperator(nx, current)
                      /\ \A current \in CompleteOperands \cup {NoNode} :
                            AcceptsOperator(nx, current)
        /\ (HasDoubleOperator(Words(input)) /\ Spaced(lex(input))) => perr # NoError
        /\ input \in C33Examples => perr # NoError

\* `t & & f` was parsed and rejected at the second operator
C33_Witness ==
    /\ pc = "parsed"
    /\ input = <<"t", " ", "&", " ", "&", " ", "f">>
    /\ perr = badAt(<<"&">>, lexerAt(input, 4, 0))

----------------------------------------------------------------------------
(* Properties of scanning.  In a state of a run of Next calls tk is the     *)
(* token the last Next returned, lx.start the place it began at and lx.pos *)
(* the place the scan stands at.                                           *)

\* a token was returned, and the scan that returned it began on the character c
BeganOn(cs) == tk # NoToken /\ lx.start < lx.len /\ lx.buffer[lx.start + 1] \in cs

\* the places after the first character of the scan that hold the character q
ClosingPlaces(q) == {j \in (lx.start + 2)..lx.len : lx.buffer[j] = q}

Least(S) == CHOOSE j \in S : \A k \in S : j <= k

\* the message of the error of a quote left open up to the end of the buffer
NotClosed ==
    <<"string not closed. char ">> \o IntToChars(lx.len)
        \o <<" near \"", "\"", "\"", "...\"">>

\* C34: a scan that begins on a quote returns an error token whose text is the
\* error message when the same quote does not occur again, and otherwise the
\* string token that ends at the next occurrence of that quote, whatever other
\* quote stands in between; a string token begins and ends with the same quote
C34_StringTokens ==
    /\ BeganOn({"'", "\""}) =>
          IF ClosingPlaces(lx.buffer[lx.start + 1]) = {}
          THEN tk = [typ |-> typeError, val |-> NotClosed]
          ELSE tk = [typ |-> typeString,
                     val |-> SubSeq(lx.buffer, lx.start + 1,
                                    Least(ClosingPlaces(lx.buffer[lx.start + 1])))]
    /\ tk.typ = typeString =>
          /\ Len(tk.val) >= 2
          /\ tk.val[1] \in {"'", "\""}
          /\ tk.val[Len(tk.val)] = tk.val[1]
          /\ \A i \in 2..(Len(tk.val) - 1) : tk.val[i] # tk.val[1]

\* a single-quoted string with a double quote inside was returned
C34_Witness ==
    /\ tk = [typ |-> typeString, val |-> <<"'", "\"", "'">>]
    /\ lx.pos = 3

\* the run of identifier characters that begins at the place p of the buffer
RECURSIVE WordFrom(_)
WordFrom(p) ==
    IF p < lx.len /\ isAlphaNumeric(lx.buffer[p + 1])
    THEN <<lx.buffer[p + 1]>> \o WordFrom(p + 1)
    ELSE <<>>

BoolWords == {<<"t", "r", "u", "e">>, <<"f", "a", "l", "s", "e">>}

\* C35: a boolean token is `true` or `false` standing as a whole word, with no
\* identifier character after it, and a scan that begins on an identifier longer
\* than the boolean word it starts with returns the identifier as one
\* function-name token: `truex` is one token
C35_BoolWholeWord ==
    /\ tk.typ = typeBool => (tk.val \in BoolWords /\ ~isAlphaNumeric(peak(lx)))
    /\ (BeganOn({"t", "f"}) /\ WordFrom(lx.start) \notin BoolWords) =>
          tk = [typ |-> typeFunction, val |-> WordFrom(lx.start)]

\* the characters acceptNumber takes as the digits of a number token's text
HasDigit(text) == \E i \in 1..Len(text) : text[i] \in DecDigits

\* C36: every number token holds at least one digit: a scan of `+`, `-` or `-.`
\* returns no number token
C36_NumberHasDigit ==
    /\ tk.typ = typeNumber => HasDigit(tk.val)
    /\ tk # NoToken => tk \notin { [typ |-> typeNumber, val |-> <<"+">>],
                                   [typ |-> typeNumber, val |-> <<"-">>],
                                   [typ |-> typeNumber, val |-> <<"-", ".">>] }

\* some rule string of the record does not parse
SyntaxErrors(os) == \E i \in 1..Len(os) : os[i].kind = "syntax"

\* C37: CheckSyntax returns the nil error exactly when every rule string of the
\* record parses and no evaluation panics
C37_CheckSyntaxNilWhenClean ==
    out.call = "CheckSyntax" =>
        (out.err = NilError <=>
            (~SyntaxErrors(Outcomes(v, record)) /\ ~Panics(Outcomes(v, record))))

----------------------------------------------------------------------------
(* Properties of the channel of CheckSyntax.                               *)

\* what CheckSyntax returns when it is taken as one step
CheckSyntaxResult == checkSyntaxReturn(traverse(v, TRUE, record, NoPanic(newParser)), 1)

\* the goroutine sends at most once, has sent once when it closes the channel,
\* and the caller returns the value sent, never the zero value of the closed
\* channel
OneSend ==
    /\ threads.sends <= 1
    /\ threads.closed => (threads.sends = 1 /\ threads.offer = NoValue)
    /\ ~threads.zero
    /\ threads.caller = "returned" =>
          /\ out = CheckSyntaxResult
          /\ out.err.Type \in {"FieldErrors", "error"}
          /\ threads.worker \notin {"send", "sending"}

\* C38: in every execution of CheckSyntax the goroutine sends exactly one value,
\* the traversal's result or the recovered panic, and then closes the channel;
\* the caller receives that value and returns, and the goroutine ends
C38_OneSendThenClose ==
    /\ []OneSend
    /\ <>(threads.caller = "returned" /\ threads.worker = "done" /\ threads.closed)

\* CheckSyntax returned the recovered panic and the goroutine closed the channel
C38_Witness ==
    /\ threads.caller = "returned"
    /\ threads.worker = "done"
    /\ threads.closed
    /\ threads.sends = 1
    /\ out.err = PlainError(EQPanic)

----------------------------------------------------------------------------
(* Progress of the lexer and of the loops of the parser.                   *)

\* the token types on which the switch of parseBools returns at once
ReturningTypes == {typeEOF, typeCloseParen, typeError, typeColon, typeComma}

\* the token types of a function parameter
ParamTypes == {typeBool, typeNumber, typeString}

\* the partial trees the switch of parseBools is tried on
PartialTrees == {NoNode} \cup CompleteOperands \cup IncompleteOperators

\* a token that is neither an error nor the end of input is the non-empty text
\* between start and pos, and pos is inside the buffer
TokenAdvances(l, nx) ==
    nx.tok.typ \notin {typeEOF, typeError} =>
        /\ nx.lex.start = l.pos
        /\ nx.lex.start < nx.lex.pos
        /\ nx.lex.pos <= nx.lex.len
        /\ nx.tok.val = SubSeq(nx.lex.buffer, nx.lex.start + 1, nx.lex.pos)
        /\ nx.tok.val # <<>>

\* an iteration of the loop of parseBools that reads nx either returns, leaving
\* the lexer where Next left it, or goes round again from a place after the one
\* it started at
BoolsIterationAdvances(l, nx) ==
    /\ nx.tok.typ \in ReturningTypes =>
          \A current \in PartialTrees :
              parseToken(nx, current, ParserRules, <<>>).lex = nx.lex
    /\ nx.tok.typ = typeFunction =>
          LET f == parseFunction(nx.lex, nx.tok.val, ParserRules)
          IN  f.err = NoError => (l.pos < f.lex.pos /\ f.lex.pos <= f.lex.len)
    /\ nx.tok.typ = typeOpenParen =>
          LET sub == parseBools(nx.lex, ParserRules)
          IN  sub.err = NoError => (l.pos < sub.lex.pos /\ sub.lex.pos <= sub.lex.len)

\* an iteration of the loop of parseFunction that starts at l either returns or
\* goes round again after a white space or a comma it consumed
ParamIterationAdvances(l, nx) ==
    /\ nx.tok.typ = typeSpace => TokenAdvances(l, nx)
    /\ nx.tok.typ # typeSpace =>
          LET t2 == Next(nx.lex)
          IN  IF t2.tok.typ \notin ParamTypes
              THEN paramValue(t2, <<>>).err # NoError /\ paramValue(t2, <<>>).lex = t2.lex
              ELSE LET t3 == Next(t2.lex)
                   IN  IF t3.tok.typ = typeComma THEN l.pos < t3.lex.pos
                       ELSE paramComma(t3, <<>>) = [params |-> <<>>, err |-> NoError,
                                                    lex |-> t3.lex]

\* no token of the rule string is a rule name
NoFunctionToken(s) == \A i \in 1..Len(lex(s)) : lex(s)[i].typ # typeFunction

\* C39: parse returns on every rule string, with an error and no tree or with no
\* error and a tree (the absent tree only when the rule string names no rule);
\* the rule string holds at most one token per character; wherever in it the
\* lexer stands, a token that is neither an error nor the end of input is
\* non-empty with start < pos <= len, inside parentheses or outside, and an
\* iteration of the loop of parseBools or of parseFunction either returns or
\* leaves the lexer further on
C39_ParseTerminates ==
    pc = "parsed" =>
        /\ LET r == parse(input, ParserRules)
           IN  /\ r.err # NoError => r.n = NoNode
               /\ (r.err = NoError /\ r.n = NoNode) => NoFunctionToken(input)
               /\ r.lex.pos <= Len(input)
               /\ tree = r.n /\ perr = r.err
        /\ Len(lex(input)) <= Len(input) + 1
        /\ \A p \in 0..Len(input) :
              /\ LET l == lexerAt(input, p, 0)
                     nx == Next(l)
                 IN  /\ TokenAdvances(l, nx)
                     /\ BoolsIterationAdvances(l, nx)
                     /\ ParamIterationAdvances(l, nx)
              /\ LET l == lexerAt(input, p, 1)
                 IN  TokenAdvances(l, Next(l))

\* `eq: ,1,,2 & (t)` was parsed: both loops went round more than once
C39_Witness ==
    /\ pc = "parsed"
    /\ input = <<"e", "q", ":", " ", ",", "1", ",", ",", "2", " ", "&", " ", "(", "t", ")">>
    /\ perr = NoError
    /\ IsOperator(tree)
    /\ tree.A.params = << <<"1">>, <<"2">> >>

----------------------------------------------------------------------------
(* execute and the tree it is handed.                                      *)

\* what an evaluation shows: the error, a panic, the rule functions invoked with
\* their parameter lists, and the list left in ps.Params
Observed(r) == [err |-> r.err, panic |-> r.panic, calls |-> r.st.calls, Params |-> r.st.Params]

\* an evaluation of the tree with a context whose parameter list is params
Evaluated(params) == execute(tree, <<>>, fails, [Params |-> params, calls |-> <<>>])

\* the evaluation made shows what any evaluation of the tree shows, whatever
\* the parameter list of the context it starts with: the one the evaluation
\* made has left, or the one of a context of another validation
SameResults ==
    pc = "done" =>
        /\ Observed(Evaluated(ps.Params)) =
              [err |-> result.err, panic |-> result.panic, calls |-> calls,
               Params |-> ps.Params]
        /\ \A earlier \in EarlierParams : Observed(Evaluated(earlier)) = Observed(Evaluated(ps.Params))

====
